---------------------------- MODULE Spec2Model ----------------------------
(***************************************************************************)
(* A model of MindMate's AI response layer                                 *)
(* (backend/services/gemini_service.py: GeminiService), of its general     *)
(* response cache (backend/services/cache_service.py: CacheService) and of *)
(* the /api/users endpoints (backend/routers/users.py) behind the          *)
(* authentication dependency of backend/middleware.                        *)
(*                                                                         *)
(* Texts are TLA+ strings; Len, \o and SubSeq act on them character by     *)
(* character, so the validator, the code-fence cleanup and the rate-limit  *)
(* test are computed on characters as the Python code computes them.       *)
(* The clock counts seconds.                                               *)
(***************************************************************************)
EXTENDS Integers, Sequences, FiniteSets, TLC

(***************************************************************************)
(* Python string primitives.                                               *)
(***************************************************************************)
\* The one-character string at 1-based position i of s (Python s[i-1]).
CharAt(s, i) == SubSeq(s, i, i)

UpperChars == "ABCDEFGHIJKLMNOPQRSTUVWXYZ"
LowerChars == "abcdefghijklmnopqrstuvwxyz"

\* str.lower() on one character (the texts of the model are ASCII).
LowerChar(c) ==
    IF \E i \in 1..Len(UpperChars) : CharAt(UpperChars, i) = c
    THEN LET i == CHOOSE j \in 1..Len(UpperChars) : CharAt(UpperChars, j) = c
         IN  CharAt(LowerChars, i)
    ELSE c

RECURSIVE Lower(_)
\* str.lower(), character by character (the string is halved at each level
\* to keep the recursion shallow).
Lower(s) ==
    IF Len(s) = 0 THEN ""
    ELSE IF Len(s) = 1 THEN LowerChar(s)
    ELSE LET h == Len(s) \div 2 IN
         Lower(SubSeq(s, 1, h)) \o Lower(SubSeq(s, h + 1, Len(s)))

\* The characters str.strip() removes.
IsSpace(c) == c \in {" ", "\n", "\t", "\r"}

RECURSIVE LStrip(_)
LStrip(s) == IF Len(s) > 0 /\ IsSpace(CharAt(s, 1)) THEN LStrip(Tail(s)) ELSE s

RECURSIVE RStrip(_)
RStrip(s) ==
    IF Len(s) > 0 /\ IsSpace(CharAt(s, Len(s)))
    THEN RStrip(SubSeq(s, 1, Len(s) - 1))
    ELSE s

\* str.strip()
Strip(s) == RStrip(LStrip(s))

\* s.startswith(p)
StartsWith(s, p) == Len(p) <= Len(s) /\ SubSeq(s, 1, Len(p)) = p

\* p in s
Contains(s, p) ==
    \E i \in 1..(Len(s) - Len(p) + 1) : SubSeq(s, i, i + Len(p) - 1) = p

\* s[n:]
DropFirst(s, n) == IF n >= Len(s) THEN "" ELSE SubSeq(s, n + 1, Len(s))

\* s[:n]
Truncate(s, n) == IF Len(s) <= n THEN s ELSE SubSeq(s, 1, n)

\* Positions of the line breaks of s.
NewlinePositions(s) == {i \in 1..Len(s) : CharAt(s, i) = "\n"}

Min(S) == CHOOSE x \in S : \A y \in S : x <= y
Max(S) == CHOOSE x \in S : \A y \in S : x >= y

\* '\n'.join(s.split('\n')[1:-1]): s without its first and its last line.
DropFirstAndLastLine(s) ==
    LET nl == NewlinePositions(s) IN
    IF Cardinality(nl) < 2 THEN ""
    ELSE SubSeq(s, Min(nl) + 1, Max(nl) - 1)


(***************************************************************************)
(* Python Optional values: None is the empty tuple, a value v is <<v>>.    *)
(***************************************************************************)
None == <<>>
Some(v) == <<v>>
IsSome(o) == o # <<>>
TheValue(o) == o[1]

(***************************************************************************)
(* Python values, dicts and json.dumps.  A value carries its type; an int  *)
(* is kept as its decimal digits.  A dict is the sequence of its items     *)
(* <<key, value>> in insertion order, with distinct keys.                  *)
(***************************************************************************)
PyNone == [type |-> "NoneType", value |-> ""]
PyStr(v) == [type |-> "str", value |-> v]
PyInt(digits) == [type |-> "int", value |-> digits]

\* str(value), as str.format() renders a value in a placeholder
PyFormat(value) == IF value.type = "NoneType" THEN "None" ELSE value.value

\* dict.keys()
Keys(d) == {d[i][1] : i \in 1..Len(d)}
\* d[key]
GetItem(d, key) == d[CHOOSE i \in 1..Len(d) : d[i][1] = key][2]
\* dict.items() as a set: two dicts are equal (==) when these are equal.
Items(d) == {d[i] : i \in 1..Len(d)}

\* The characters of the keys, in code-point order.
CodePointOrder == "0123456789ABCDEFGHIJKLMNOPQRSTUVWXYZ_abcdefghijklmnopqrstuvwxyz"
CodePoint(c) == CHOOSE i \in 1..Len(CodePointOrder) : CharAt(CodePointOrder, i) = c

RECURSIVE StrLess(_, _)
\* a < b on str: lexicographic by code point
StrLess(a, b) ==
    IF Len(b) = 0 THEN FALSE
    ELSE IF Len(a) = 0 THEN TRUE
    ELSE IF CharAt(a, 1) = CharAt(b, 1) THEN StrLess(Tail(a), Tail(b))
    ELSE CodePoint(CharAt(a, 1)) < CodePoint(CharAt(b, 1))

\* json.dumps without sort_keys: the items stay in insertion order.
InsertionOrder(d) == d

RECURSIVE SortKeys(_)
\* sort_keys=True of json.dumps: the items of a dict by ascending key
SortKeys(d) ==
    IF Len(d) = 0 THEN <<>>
    ELSE LET least == CHOOSE i \in 1..Len(d) :
                         \A j \in 1..Len(d) : j # i => StrLess(d[i][1], d[j][1])
         IN  <<d[least]>> \o SortKeys([k \in 1..(Len(d) - 1) |->
                                         IF k < least THEN d[k] ELSE d[k + 1]])

\* json.dumps(value) for a value that is None, a str or an int (the texts
\* of the model need no escape)
JsonDumps(value) ==
    IF value.type = "NoneType" THEN "null"
    ELSE IF value.type = "int" THEN value.value
    ELSE "\"" \o value.value \o "\""

RECURSIVE JsonItems(_)
\* The items of a JSON object, joined by the default separators
JsonItems(items) ==
    IF Len(items) = 0 THEN ""
    ELSE "\"" \o items[1][1] \o "\": " \o JsonDumps(items[1][2])
         \o (IF Len(items) > 1 THEN ", " ELSE "") \o JsonItems(Tail(items))

\* json.dumps(d, sort_keys=True) for a dict of such values
JsonDumpsDict(d) == "{" \o JsonItems(SortKeys(d)) \o "}"

(***************************************************************************)
(* GeminiService: constants of __init__ and the pure helpers.              *)
(***************************************************************************)
\* class PromptType
PromptType ==
    {"therapy_response", "therapy_reflection", "emotion_analysis",
     "cognitive_insight", "behavior_analysis", "mood_summary",
     "session_summary"}

\* self.cache_ttl_hours
cache_ttl_hours == 24
\* self.max_retries
max_retries == 3
\* self.retry_delay, in seconds
retry_delay == 2

\* timedelta(hours=self.cache_ttl_hours), in seconds
CacheTtl == cache_ttl_hours * 3600

\* The placeholders of each template of _build_prompt.
TemplateFields(prompt_type) ==
    CASE prompt_type = "therapy_response"   -> {"message", "context"}
      [] prompt_type = "therapy_reflection" -> {"topics", "mood"}
      [] prompt_type = "emotion_analysis"   -> {"content"}
      [] prompt_type = "cognitive_insight"  ->
            {"game_type", "total_plays", "best_score", "recent_avg", "older_avg"}
      [] prompt_type = "behavior_analysis"  ->
            {"days", "avg_screen_time", "trend", "detections", "risk_level"}
      [] prompt_type = "mood_summary"       -> {"mood_data", "days"}
      [] prompt_type = "session_summary"    -> {"duration", "topics", "mood"}

\* template.format(**context) raises KeyError: a placeholder has no value.
MissingField(prompt_type, context) ==
    \E f \in TemplateFields(prompt_type) : f \notin Keys(context)

\* _build_prompt.  A prompt is the template of its type with the values, as
\* str.format renders them, put in its placeholders; on KeyError the except
\* branch returns the template itself, placeholders unfilled, and raises
\* nothing.
_build_prompt(prompt_type, context) ==
    IF MissingField(prompt_type, context)
    THEN [template |-> prompt_type, rendered |-> FALSE, values |-> <<>>]
    ELSE [template |-> prompt_type, rendered |-> TRUE,
          values |-> [f \in TemplateFields(prompt_type) |->
                        PyFormat(GetItem(context, f))]]

\* cache_string of _get_cache_key:
\* json.dumps({'type': prompt_type, 'context': context}, sort_keys=True).
\* PromptType is a str enum and is written as its value; 'context' sorts
\* before 'type'.
cache_string(prompt_type, context) ==
    "{\"context\": " \o JsonDumpsDict(context)
        \o ", \"type\": " \o JsonDumps(PyStr(prompt_type)) \o "}"

\* _get_cache_key.  The MD5 digest is modelled as collision free: the key
\* stands for the digest of the string it is.
_get_cache_key(prompt_type, context) == cache_string(prompt_type, context)

\* error_patterns of _validate_response
error_patterns ==
    {"I cannot", "I am unable", "Error:", "Exception:", "as an AI",
     "I apologize, but"}

\* emotion_keywords of _validate_response
emotion_keywords == {"feel", "emotion", "mood", "happy", "sad", "anxious", "calm"}

\* The minimum length of _validate_response
MinResponseLen == 10

\* A _validate_response that compares the patterns case by case.
ValidateCaseSensitive(response, prompt_type) ==
    /\ ~(Len(response) = 0 \/ Len(Strip(response)) = 0)
    /\ ~(Len(response) < MinResponseLen)
    /\ ~(\E pattern \in error_patterns : Contains(response, pattern))
    /\ (prompt_type = "emotion_analysis" =>
            \E keyword \in emotion_keywords : Contains(Lower(response), keyword))

\* A _validate_response that asks every prompt type for an emotion keyword.
ValidateKeywordsAlways(response, prompt_type) ==
    /\ ~(Len(response) = 0 \/ Len(Strip(response)) = 0)
    /\ ~(Len(response) < MinResponseLen)
    /\ ~(\E pattern \in error_patterns : Contains(Lower(response), Lower(pattern)))
    /\ \E keyword \in emotion_keywords : Contains(Lower(response), keyword)

\* _validate_response
_validate_response(response, prompt_type) ==
    LET response_lower == Lower(response) IN
    /\ ~(Len(response) = 0 \/ Len(Strip(response)) = 0)
    /\ ~(Len(response) < MinResponseLen)
    /\ ~(\E pattern \in error_patterns : Contains(response_lower, Lower(pattern)))
    /\ (prompt_type = "emotion_analysis" =>
            \E keyword \in emotion_keywords : Contains(response_lower, keyword))

DefaultFallback == "Thank you for using MindMate. We're here to support your wellness journey."

\* The fallbacks dictionary of _get_fallback_response
fallbacks ==
    [therapy_response |-> "I hear you. It's important to acknowledge what you're feeling. Take a moment to breathe and know that it's okay to feel this way.",
     therapy_reflection |-> "Thank you for sharing today. Remember that healing is a journey, and every step forward matters. Take care of yourself.",
     emotion_analysis |-> "Your emotions are valid. It's natural to experience a range of feelings. Consider taking some time for self-care.",
     cognitive_insight |-> "You're making progress! Keep practicing these exercises to maintain your cognitive health.",
     behavior_analysis |-> "Consider setting healthy boundaries with technology. Small changes can make a big difference in your digital wellness.",
     mood_summary |-> "Your emotional journey is unique. Continue tracking your moods to better understand your patterns.",
     session_summary |-> "This session covered important topics. Reflect on what resonated with you and consider journaling about it."]

\* A _get_fallback_response whose dictionary lacks an entry and whose
\* default is the empty string.
FallbackWithGap(prompt_type, context) ==
    IF prompt_type = "mood_summary" THEN "" ELSE fallbacks[prompt_type]

\* A _get_fallback_response whose dictionary has no entry for the session
\* summary, so that the default answers for it.
FallbackByDefault(prompt_type, context) ==
    IF prompt_type = "session_summary" THEN DefaultFallback ELSE fallbacks[prompt_type]

\* _get_fallback_response: fallbacks.get(prompt_type, default)
_get_fallback_response(prompt_type, context) ==
    IF prompt_type \in DOMAIN fallbacks THEN fallbacks[prompt_type] ELSE DefaultFallback

\* The code-fence marker.  The source tests for three backquotes; a TLA+
\* string cannot hold a backquote, so the fence is written with tildes here
\* and in the upstream texts of the model.
Fence == "~~~"

\* The clean-up of generate_response between the upstream call and the
\* validation: response.text.strip(), then the code-fence removal.
CleanResponse(raw) ==
    LET response_text == Strip(raw) IN
    IF StartsWith(response_text, Fence)
    THEN LET inner == DropFirstAndLastLine(response_text) IN
         IF StartsWith(inner, "json") THEN Strip(DropFirst(inner, 4)) ELSE inner
    ELSE response_text

\* 'rate limit' in str(e).lower() or 'quota' in str(e).lower()
IsRateLimited(msg) ==
    Contains(Lower(msg), "rate limit") \/ Contains(Lower(msg), "quota")

\* time.sleep(self.retry_delay * (attempt + 1)), attempt counted from 0
BackoffDelay(attempt) == retry_delay * (attempt + 1)

(***************************************************************************)
(* Bounds and inputs.                                                      *)
(***************************************************************************)
\* generate_response calls begun in one behaviour
MaxCalls == 2
\* clock advances in one behaviour
MaxTicks == 2
\* CacheService.set calls in one behaviour
MaxSets == 2

\* What one self.model.generate_content(prompt) can give: a text, or an
\* exception with its message.
\* TextCalm passes the validator for every prompt type once stripped;
\* TextFenced is wrapped in a code fence and names no emotion, so it passes
\* for every type but emotion_analysis; TextShort is too short.
TextCalm == "  You seem calm today.\n"
TextFenced == "~~~json\n{\"tip\": \"Keep going!\"}\n~~~"
TextShort == "ok"
ExcRateLimit == "429 Rate limit exceeded"
ExcOther == "Connection reset by peer"
\* The service rejects the prompt itself: the same request fails again.
ExcInvalidPrompt == "400 Invalid argument: prompt rejected"

UpstreamTexts == {TextCalm, TextFenced, TextShort}
\* Texts in a code fence: without a tag, with content that begins with the
\* letters of the tag, and with no closing fence (a reply cut off by the
\* upstream).
FenceTexts ==
    {"~~~\nRest well tonight.\n~~~",
     "~~~\njson  {\"tip\": \"Rest well\"}\n~~~",
     "~~~json\nTake a short walk.\nThen rest a while."}
UpstreamErrors == {ExcRateLimit, ExcOther}

UpstreamOutcomes ==
    {[kind |-> "text", body |-> t] : t \in UpstreamTexts}
    \cup {[kind |-> "exc", body |-> m] : m \in UpstreamErrors}

\* The string computations on the inputs above, tabulated once: what the
\* clean-up makes of each upstream text, whether the validator accepts it
\* for each prompt type, and whether an error message counts as a rate limit.
Cleaned == [t \in UpstreamTexts \cup FenceTexts |-> CleanResponse(t)]
\* A validation step that accepts every text.
AcceptedUnchecked == [t \in UpstreamTexts \cup FenceTexts |-> PromptType]
Accepted == [t \in UpstreamTexts \cup FenceTexts |-> {p \in PromptType : _validate_response(Cleaned[t], p)}]
RateLimited == [m \in UpstreamErrors \cup {ExcInvalidPrompt} |-> IsRateLimited(m)]

\* The prompt type and context of a call: two well-formed requests and one
\* whose context lacks the field `days` of its template.
CallInputs ==
    {[prompt_type |-> "emotion_analysis",
      context |-> << <<"content", PyStr("c1")>> >>],
     [prompt_type |-> "mood_summary",
      context |-> << <<"mood_data", PyStr("m1")>>, <<"days", PyInt("7")>> >>],
     [prompt_type |-> "mood_summary",
      context |-> << <<"mood_data", PyStr("m1")>> >>]}

\* The use_cache argument: every caller in the repository leaves it True.
UseCacheArgs == {TRUE}

\* The clock advances by one second or by the TTL of the AI cache.
TickSteps == {1, CacheTtl}

\* Outcomes of a datastore request: TRUE when it succeeds.  The datastore
\* answers every request in Spec.
DbOutcomes == {TRUE}

\* The keys, values and TTL arguments of the CacheService requests.  A TTL
\* argument is Optional[int]; the value None is a cached value like any other.
StoreKeys == {"user:u1"}
StoreValues == {PyNone, PyStr("null")}
TtlArgs == {None, Some(1)}

VARIABLES
    response_cache, \* table response_cache: key -> its row, if any
    sets,           \* CacheService.set calls so far
    last_op,        \* the latest CacheService request and what it returned
    ai_cache,       \* table ai_cache: the rows, in insertion order
    ai_logs,        \* table ai_logs: the rows inserted since the current
                    \* call began (the program never reads the table)
    now,            \* datetime.utcnow(), in seconds
    ticks,          \* clock advances so far
    calls,          \* generate_response calls begun so far
    call,           \* the generate_response call in progress or last ended
    prev,           \* what the call before `call` left behind
    probe,          \* the latest direct application of a helper or
                    \* request to /api/users: its arguments and its result
    users_db,       \* what the datastore holds for the user of /api/users
    enable_caching  \* self.enable_caching of the GeminiService

ai_vars == <<ai_cache, ai_logs, calls, call, prev>>
store_vars == <<response_cache, sets, last_op>>
other_vars == <<probe, users_db, enable_caching>>
vars == <<ai_cache, ai_logs, now, ticks, calls, call, prev, response_cache, sets,
          last_op, probe, users_db, enable_caching>>

(***************************************************************************)
(* GeminiService: datastore helpers.                                       *)
(***************************************************************************)
\* A query that leaves out the row created exactly cache_ttl_hours ago:
\* .gt('created_at', cutoff_time).
AiCacheRowsStrict(cache_key, t) ==
    {i \in 1..Len(ai_cache) :
        /\ ai_cache[i].cache_key = cache_key
        /\ ai_cache[i].created_at > t - CacheTtl}

\* The rows the query of _get_cached_response selects at time t:
\* .eq('cache_key', cache_key).gte('created_at', cutoff_time)
AiCacheRows(cache_key, t) ==
    {i \in 1..Len(ai_cache) :
        /\ ai_cache[i].cache_key = cache_key
        /\ ai_cache[i].created_at >= t - CacheTtl}

\* A _get_cached_response that queries the table whatever enable_caching is.
LookupIgnoresFlag(cache_key, db_ok) ==
    IF ~db_ok \/ AiCacheRows(cache_key, now) = {} THEN {None}
    ELSE {Some(ai_cache[i].response) : i \in AiCacheRows(cache_key, now)}

\* _get_cached_response: the values it can return.  The query has no
\* ORDER BY, so result.data[0] is any of the selected rows.  A failed
\* request is caught and gives None.
_get_cached_response(cache_key, db_ok) ==
    IF ~enable_caching THEN {None}
    ELSE IF ~db_ok THEN {None}
    ELSE IF AiCacheRows(cache_key, now) = {} THEN {None}
    ELSE {Some(ai_cache[i].response) : i \in AiCacheRows(cache_key, now)}

\* A _cache_response that inserts nothing.
CacheNothing(cache_key, response, prompt_type, db_ok) == ai_cache

\* _cache_response: table ai_cache after the call.  created_at is the
\* column default, the time of the insert.
_cache_response(cache_key, response, prompt_type, db_ok) ==
    IF ~enable_caching THEN ai_cache
    ELSE IF ~db_ok THEN ai_cache
    ELSE Append(ai_cache, [cache_key |-> cache_key, prompt_type |-> prompt_type,
                           response |-> response, created_at |-> now])

\* A _log_interaction that keeps no record of an attempt that raised.
LogSkipsRaisingAttempts(logs, prompt_type, prompt, response, success, error, db_ok) ==
    IF response = None THEN logs
    ELSE Append(logs, [prompt_type |-> prompt_type, prompt |-> prompt,
                       response |-> response, success |-> success, error |-> error])

\* A _log_interaction that inserts its row twice.
LogTwice(logs, prompt_type, prompt, response, success, error, db_ok) ==
    LET row == [prompt_type |-> prompt_type, prompt |-> prompt,
                response |-> response, success |-> success, error |-> error]
    IN  Append(Append(logs, row), row)

\* A _log_interaction that marks every row as a failure.
LogAlwaysFailure(logs, prompt_type, prompt, response, success, error, db_ok) ==
    Append(logs, [prompt_type |-> prompt_type, prompt |-> prompt,
                  response |-> response, success |-> FALSE, error |-> error])

\* _log_interaction: table ai_logs after the call.  The row keeps the
\* prompt whole (prompt[:1000] cuts a text the model does not spell out) and
\* leaves out user_id, which the code only copies.
_log_interaction(logs, prompt_type, prompt, response, success, error, db_ok) ==
    IF ~db_ok THEN logs
    ELSE Append(logs, [prompt_type |-> prompt_type,
                       prompt |-> prompt,
                       response |-> IF IsSome(response) /\ Len(TheValue(response)) > 0
                                    THEN Some(Truncate(TheValue(response), 2000))
                                    ELSE None,
                       success |-> success,
                       error |-> error])

(***************************************************************************)
(* GeminiService.generate_response.                                        *)
(*                                                                         *)
(* The coroutine has no await, so one call runs from its first line to its *)
(* return before the event loop starts another one.  The model takes the   *)
(* call in steps, one up to the first upstream request, one for each       *)
(* iteration of the retry loop, because each upstream request brings an    *)
(* input of the environment, and one for each backoff sleep.               *)
(***************************************************************************)
\* The backoff is time.sleep(), which blocks the thread that runs the event
\* loop until it returns (asyncio.sleep would suspend the coroutine only).
SleepBlocksEventLoop == TRUE

\* The event loop can run a step of another handler: no generate_response
\* is running between two of its steps, and none holds the thread in a sleep.
EventLoopFree ==
    /\ call.pc # "generate"
    /\ call.pc = "backoff" => ~SleepBlocksEventLoop

IdleCall ==
    [pc |-> "idle", prompt_type |-> "mood_summary", context |-> <<>>,
     use_cache |-> TRUE, cache_key |-> "", looked |-> FALSE,
     prompt |-> None, attempt |-> 0, upstream |-> 0, hist |-> <<>>,
     sleeps |-> <<>>, stores |-> 0, result |-> None, ending |-> "none",
     began |-> 0, ended |-> 0]

NoPrev == [prompt_type |-> "", context |-> <<>>, cache_key |-> "",
           first_try |-> None, at |-> 0]

\* What a finished call leaves for the next one to be compared with: its
\* arguments, its key, the time it ended, and its text when it looked the
\* key up, missed, and returned the valid text of its first attempt.
Summary(c) ==
    [prompt_type |-> c.prompt_type, context |-> c.context,
     cache_key |-> c.cache_key,
     first_try |-> IF c.looked /\ c.ending = "generated" /\ Len(c.hist) = 1
                   THEN c.result ELSE None,
     at |-> c.ended]

\* A retry loop that catches the rate-limit errors only.
CatchesRateLimitOnly(msg) == IsRateLimited(msg)

\* `except Exception as e` of the retry loop: the exceptions it catches.
CaughtByRetryLoop(msg) == TRUE

\* A loop that runs one iteration too many: range(self.max_retries + 1).
OneIterationMore(attempt) == attempt >= max_retries

\* A loop that runs one iteration too few: range(self.max_retries - 1).
OneIterationLess(attempt) == attempt + 2 >= max_retries

\* `for attempt in range(self.max_retries)`: the iteration with this value
\* of attempt (counted from 0) is the last one.
LastIteration(attempt) == attempt + 1 >= max_retries

\* Lines 342-352: the cache key, the cache lookup, the prompt.  `if cached`
\* is the truth value of the string: an empty response is no hit.
Begin(prompt_type, context, use_cache, db_ok) ==
    /\ call.pc \in {"idle", "done"}
    /\ calls < MaxCalls
    /\ LET cache_key == _get_cache_key(prompt_type, context)
           started == [IdleCall EXCEPT !.prompt_type = prompt_type,
                                       !.context = context,
                                       !.use_cache = use_cache,
                                       !.cache_key = cache_key,
                                       !.began = now]
       IN \E cached \in (IF use_cache THEN _get_cached_response(cache_key, db_ok)
                                      ELSE {None}) :
            call' = IF IsSome(cached) /\ Len(TheValue(cached)) > 0
                    THEN [started EXCEPT !.pc = "done", !.looked = use_cache,
                                         !.result = cached, !.ending = "cache"]
                    ELSE [started EXCEPT !.pc = "generate", !.looked = use_cache,
                                         !.prompt = Some(_build_prompt(prompt_type, context))]
    /\ prev' = IF call.pc = "done" THEN Summary(call) ELSE prev
    /\ calls' = calls + 1
    /\ ai_logs' = <<>>
    /\ UNCHANGED <<ai_cache, now, ticks, store_vars, other_vars>>

\* A fallback path that returns the fallback without logging it.
FallbackUnlogged(c, logs, log_ok) ==
    [call |-> [c EXCEPT !.pc = "done", !.ending = "fallback",
                        !.result = Some(_get_fallback_response(c.prompt_type, c.context))],
     logs |-> logs]

\* A fallback path that lets the failure of its log insert reach the caller.
FallbackNeedsLog(c, logs, log_ok) ==
    IF log_ok THEN FallbackUnlogged(c, logs, log_ok)
    ELSE [call |-> [c EXCEPT !.pc = "done", !.ending = "raised"], logs |-> logs]

\* Lines 407-421: the call and the log after the retry loop has ended
\* without a return.
Fallback(c, logs, log_ok) ==
    LET fallback == _get_fallback_response(c.prompt_type, c.context) IN
    [call |-> [c EXCEPT !.pc = "done", !.result = Some(fallback),
                        !.ending = "fallback"],
     logs |-> _log_interaction(logs, c.prompt_type, c.prompt, Some(fallback),
                               FALSE, Some("Using fallback response"), log_ok)]

\* Lines 355-405: one iteration of `for attempt in range(self.max_retries)`,
\* and lines 407-421 when it was the last one.
Attempt(out, store_ok, log_ok, fallback_log_ok) ==
    /\ call.pc = "generate"
    /\ LET attempt == call.attempt
           last == LastIteration(attempt)
           tried == [call EXCEPT !.upstream = @ + 1, !.hist = Append(@, out)]
           next == [tried EXCEPT !.attempt = attempt + 1]
       IN
       IF out.kind = "text"
       THEN LET response_text == Cleaned[out.body] IN
            IF call.prompt_type \in Accepted[out.body]
            THEN /\ ai_cache' = _cache_response(call.cache_key, response_text,
                                                call.prompt_type, store_ok)
                 /\ ai_logs' = _log_interaction(ai_logs, call.prompt_type, call.prompt,
                                                Some(response_text), TRUE, None, log_ok)
                 /\ call' = [tried EXCEPT !.pc = "done", !.stores = @ + 1,
                                          !.result = Some(response_text),
                                          !.ending = "generated", !.ended = now]
                 /\ now' = now
            ELSE /\ IF last
                    THEN LET f == Fallback(next, ai_logs, fallback_log_ok) IN
                         /\ call' = f.call
                         /\ ai_logs' = f.logs
                    ELSE /\ call' = next
                         /\ ai_logs' = ai_logs
                 /\ UNCHANGED <<ai_cache, now>>
       ELSE IF ~CaughtByRetryLoop(out.body)
       THEN /\ call' = [tried EXCEPT !.pc = "done", !.ending = "raised"]
            /\ UNCHANGED <<ai_cache, ai_logs, now>>
       ELSE LET logged == _log_interaction(ai_logs, call.prompt_type, call.prompt,
                                           None, FALSE, Some(out.body), log_ok)
            IN
            IF RateLimited[out.body] /\ attempt < max_retries - 1
            THEN /\ call' = [tried EXCEPT !.pc = "backoff"]
                 /\ ai_logs' = logged
                 /\ UNCHANGED <<ai_cache, now>>
            ELSE /\ IF last
                    THEN LET f == Fallback(next, logged, fallback_log_ok) IN
                         /\ call' = f.call
                         /\ ai_logs' = f.logs
                    ELSE /\ call' = next
                         /\ ai_logs' = logged
                 /\ UNCHANGED <<ai_cache, now>>
    /\ UNCHANGED <<ticks, calls, prev, store_vars, other_vars>>

\* Lines 401-405: time.sleep(self.retry_delay * (attempt + 1)) returns and
\* `continue` starts the next iteration.
Sleep ==
    /\ call.pc = "backoff"
    /\ now' = now + BackoffDelay(call.attempt)
    /\ call' = [call EXCEPT !.pc = "generate", !.attempt = @ + 1,
                            !.sleeps = Append(@, BackoffDelay(call.attempt))]
    /\ UNCHANGED <<ai_cache, ai_logs, ticks, calls, prev, store_vars, other_vars>>

\* Time passes.  The program reads the clock at the cache lookup and the
\* datastore stamps a row at its insert; the model lets time pass between
\* the calls and in the backoff sleeps.
Tick(d) ==
    /\ ticks < MaxTicks
    /\ call.pc \notin {"generate", "backoff"}
    /\ now' = now + d
    /\ ticks' = ticks + 1
    /\ UNCHANGED <<ai_vars, store_vars, other_vars>>

(***************************************************************************)
(* CacheService (cache_service.py).  A timestamp is the number of seconds  *)
(* on the clock; isoformat() and fromisoformat() keep the order of the     *)
(* timestamps they encode.                                                 *)
(***************************************************************************)
\* self.default_ttl, in seconds
default_ttl == 300

\* json.loads(text) for the texts JsonDumps writes
JsonLoads(text) ==
    IF text = "null" THEN PyNone
    ELSE IF CharAt(text, 1) = "\"" THEN PyStr(SubSeq(text, 2, Len(text) - 1))
    ELSE PyInt(text)

\* A TTL that is the default whatever the argument.
TtlAlwaysDefault(ttl) == default_ttl

\* `ttl = ttl or self.default_ttl`: None and 0 give the default.
EffectiveTtl(ttl) ==
    IF ttl = None \/ TheValue(ttl) = 0 THEN default_ttl ELSE TheValue(ttl)

\* An expiry test with the comparison turned round.
ExpiredReversed(entry, t) == t < entry.expires_at

\* `datetime.utcnow() > expires_at` of CacheService.get
Expired(entry, t) == t > entry.expires_at

\* CacheService.delete: the table after it.  A failed request is caught.
DeleteRow(table, key, db_ok) ==
    IF db_ok THEN [table EXCEPT ![key] = None] ELSE table

\* CacheService.set: an upsert of the row of the key.  (The event loop runs
\* one handler at a time: a CacheService request does not start inside a
\* generate_response call.)
CacheSet(key, value, ttl, db_ok) ==
    /\ EventLoopFree
    /\ sets < MaxSets
    /\ sets' = sets + 1
    /\ response_cache' =
          IF db_ok
          THEN [response_cache EXCEPT ![key] =
                    Some([value |-> JsonDumps(value),
                          expires_at |-> now + EffectiveTtl(ttl)])]
          ELSE response_cache
    /\ last_op' = [op |-> "set", key |-> key, value |-> value, at |-> now,
                   hit |-> db_ok, expired |-> FALSE]
    /\ UNCHANGED <<ai_vars, now, ticks, other_vars>>

\* CacheService.get: None when the request fails, when there is no row, or
\* when the row has expired (the row is then deleted); else the value.
CacheGet(key, db_ok, delete_ok) ==
    /\ EventLoopFree
    /\ LET row == response_cache[key]
           present == db_ok /\ IsSome(row)
           expired == present /\ Expired(TheValue(row), now)
       IN
       /\ response_cache' = IF expired THEN DeleteRow(response_cache, key, delete_ok)
                                       ELSE response_cache
       /\ last_op' = [op |-> "get", key |-> key,
                      value |-> IF present /\ ~expired
                                THEN JsonLoads(TheValue(row).value) ELSE PyNone,
                      at |-> now, hit |-> present /\ ~expired, expired |-> expired]
    /\ UNCHANGED <<ai_vars, now, ticks, sets, other_vars>>

\* CacheService.delete
CacheDelete(key, db_ok) ==
    /\ EventLoopFree
    /\ response_cache' = DeleteRow(response_cache, key, db_ok)
    /\ last_op' = [op |-> "delete", key |-> key, value |-> PyNone, at |-> now,
                   hit |-> db_ok, expired |-> FALSE]
    /\ UNCHANGED <<ai_vars, now, ticks, sets, other_vars>>

NoOp == [op |-> "none", key |-> "", value |-> PyNone, at |-> 0,
         hit |-> FALSE, expired |-> FALSE]

RECURSIVE JsonList(_)
\* The elements of a JSON array, joined by the default separator
JsonList(values) ==
    IF Len(values) = 0 THEN ""
    ELSE JsonDumps(values[1]) \o (IF Len(values) > 1 THEN ", " ELSE "")
         \o JsonList(Tail(values))

\* CacheService._generate_cache_key: the string that is hashed (MD5 is
\* taken as injective).  The positional arguments are written as an array.
_generate_cache_key(prefix, args, kwargs) ==
    "{\"args\": [" \o JsonList(args) \o "], \"kwargs\": " \o JsonDumpsDict(kwargs)
    \o ", \"prefix\": \"" \o prefix \o "\"}"

\* The positional arguments of the calls of a function decorated with
\* @cached('user_profile', ttl=...), which takes a user id.
CachedArgs == {<<PyStr("u1")>>, <<PyStr("u2")>>}

\* One call of the wrapper of @cached(prefix, ttl): the key, cache.get,
\* and on a miss the decorated function (which returns result) and
\* cache.set.  probe keeps what the call found and did.
\* cache._generate_cache_key(prefix, *args, **kwargs) of the wrapper,
\* tabulated once over the calls made.
CacheKeyOf ==
    [p \in {"user_profile"}, a \in CachedArgs |-> _generate_cache_key(p, a, << >>)]

cached(prefix, ttl, args, result, get_ok, delete_ok, set_ok) ==
    /\ EventLoopFree
    /\ LET cache_key == CacheKeyOf[prefix, args]
           row == response_cache[cache_key]
           present == get_ok /\ IsSome(row)
           expired == present /\ Expired(TheValue(row), now)
           cached_value == IF present /\ ~expired
                           THEN JsonLoads(TheValue(row).value) ELSE PyNone
           after_get == IF expired THEN DeleteRow(response_cache, cache_key, delete_ok)
                                   ELSE response_cache
           Seen(func_calls, returned) ==
               [op |-> "cached", key |-> cache_key, ttl |-> ttl, at |-> now,
                row |-> row, get_ok |-> get_ok, set_ok |-> set_ok,
                func_result |-> result, func_calls |-> func_calls,
                returned |-> returned]
       IN
       IF cached_value # PyNone
       THEN /\ probe' = Seen(0, cached_value)
            /\ response_cache' = after_get
            /\ last_op' = [op |-> "get", key |-> cache_key, value |-> cached_value,
                           at |-> now, hit |-> TRUE, expired |-> FALSE]
            /\ sets' = sets
       ELSE /\ sets < MaxSets
            /\ probe' = Seen(1, result)
            /\ response_cache' =
                  IF set_ok
                  THEN [after_get EXCEPT ![cache_key] =
                            Some([value |-> JsonDumps(result),
                                  expires_at |-> now + EffectiveTtl(ttl)])]
                  ELSE after_get
            /\ last_op' = [op |-> "set", key |-> cache_key, value |-> result,
                           at |-> now, hit |-> set_ok, expired |-> FALSE]
            /\ sets' = sets + 1
    /\ UNCHANGED <<ai_vars, now, ticks, users_db, enable_caching>>

(***************************************************************************)
(* The helpers of GeminiService applied on their own.  They read no field  *)
(* that changes and make no datastore request.                             *)
(***************************************************************************)
NoProbe == [op |-> "none"]

\* The spellings of the error patterns in the texts given to the validator.
DenylistSpellings ==
    {"I cannot", "i CANNOT", "I am unable", "I AM UNABLE", "Error:", "ERROR:",
     "error:", "Exception:", "EXCEPTION:", "as an AI", "As An Ai",
     "I apologize, but", "i apologize, BUT"}

\* The texts given to _validate_response: each spelling on its own and
\* inside a sentence that is long enough and names an emotion, texts that
\* hold no error pattern, and empty, blank and short texts, bare and with
\* whitespace around them.
ValidateTexts ==
    DenylistSpellings
    \cup {"I feel calm. " \o s \o " do that." : s \in DenylistSpellings}
    \cup {"You seem calm today.", "I can not say how you feel.",
          "{\"tip\": \"Keep going!\"}", "ok"}
    \cup {"", "           ", " \n\t ", "   ok      ", "\n  calm   \n", "Feel calm",
          "Feel calm."}

\* What _validate_response returns for these texts, tabulated once: the
\* prompt types for which it returns True.
Validated == [r \in ValidateTexts |-> {p \in PromptType : _validate_response(r, p)}]

\* self._validate_response(response, prompt_type)
ValidateResponse(response, prompt_type) ==
    /\ probe' = [op |-> "_validate_response", response |-> response,
                 prompt_type |-> prompt_type,
                 result |-> prompt_type \in Validated[response]]
    /\ UNCHANGED <<ai_vars, store_vars, now, ticks, users_db, enable_caching>>

Init ==
    /\ ai_cache = <<>>
    /\ ai_logs = <<>>
    /\ now = 0
    /\ ticks = 0
    /\ calls = 0
    /\ call = IdleCall
    /\ prev = NoPrev
    /\ response_cache =
          [k \in StoreKeys \cup {_generate_cache_key("user_profile", a, << >>) :
                                   a \in CachedArgs} |-> None]
    /\ sets = 0
    /\ last_op = NoOp
    /\ probe = NoProbe
    /\ users_db = [profile |-> TRUE, theme |-> None, notification_settings |-> None]
    /\ enable_caching = TRUE

\* The calls are the only readers of the clock in Spec: it advances between
\* one call and the next.
BetweenCalls == call.pc = "done" /\ calls < MaxCalls

Next ==
    \/ \E inp \in CallInputs, u \in UseCacheArgs, ok \in DbOutcomes :
          Begin(inp.prompt_type, inp.context, u, ok)
    \/ \E out \in UpstreamOutcomes, ok1 \in DbOutcomes, ok2 \in DbOutcomes, ok3 \in DbOutcomes :
          Attempt(out, ok1, ok2, ok3)
    \/ Sleep
    \/ \E d \in TickSteps : BetweenCalls /\ Tick(d)

Spec == Init /\ [][Next]_vars

\* The two caches side by side: one prompt type and context, two upstream
\* outcomes, and the CacheService requests.  The clock also advances by the
\* default TTL of CacheService.
CacheOutcomes ==
    {[kind |-> "text", body |-> TextCalm], [kind |-> "exc", body |-> ExcOther]}
CacheTickSteps == TickSteps \cup {default_ttl}

NextCache ==
    \/ \E u \in UseCacheArgs, ok \in DbOutcomes :
          Begin("mood_summary",
                << <<"mood_data", PyStr("m1")>>, <<"days", PyInt("7")>> >>, u, ok)
    \/ \E out \in CacheOutcomes, ok1 \in DbOutcomes, ok2 \in DbOutcomes, ok3 \in DbOutcomes :
          Attempt(out, ok1, ok2, ok3)
    \/ \E d \in CacheTickSteps : Tick(d)
    \/ \E k \in StoreKeys, v \in StoreValues, ttl \in TtlArgs, ok \in DbOutcomes :
          CacheSet(k, v, ttl, ok)
    \/ \E k \in StoreKeys, ok1 \in DbOutcomes, ok2 \in DbOutcomes :
          CacheGet(k, ok1, ok2)
    \/ \E k \in StoreKeys, ok \in DbOutcomes : CacheDelete(k, ok)

SpecCache == Init /\ [][NextCache]_vars

\* The cache key under contexts that differ in the order of their fields, in
\* one value, or not at all, and under two prompt types with one context
\* (str.format ignores the field a template does not name).
KeyInputs ==
    {[prompt_type |-> "mood_summary",
      context |-> << <<"mood_data", PyStr("m1")>>, <<"days", PyInt("7")>> >>],
     [prompt_type |-> "mood_summary",
      context |-> << <<"days", PyInt("7")>>, <<"mood_data", PyStr("m1")>> >>],
     [prompt_type |-> "mood_summary",
      context |-> << <<"mood_data", PyStr("m1")>>, <<"days", PyStr("7")>> >>],
     [prompt_type |-> "therapy_reflection",
      context |-> << <<"topics", PyStr("sleep")>>, <<"mood", PyStr("ok")>>,
                     <<"duration", PyInt("5")>> >>],
     [prompt_type |-> "session_summary",
      context |-> << <<"topics", PyStr("sleep")>>, <<"mood", PyStr("ok")>>,
                     <<"duration", PyInt("5")>> >>]}

NextKey ==
    \/ \E inp \in KeyInputs, u \in UseCacheArgs, ok \in DbOutcomes :
          Begin(inp.prompt_type, inp.context, u, ok)
    \/ \E out \in CacheOutcomes, ok1 \in DbOutcomes, ok2 \in DbOutcomes, ok3 \in DbOutcomes :
          Attempt(out, ok1, ok2, ok3)
    \/ \E d \in TickSteps : BetweenCalls /\ Tick(d)

SpecKey == Init /\ [][NextKey]_vars

\* The retry loop under an upstream that can reject the prompt, limit the
\* rate, or answer.
RetryOutcomes ==
    {[kind |-> "exc", body |-> ExcInvalidPrompt],
     [kind |-> "exc", body |-> ExcRateLimit],
     [kind |-> "text", body |-> TextCalm]}

NextRetry ==
    \/ \E inp \in CallInputs, u \in UseCacheArgs, ok \in DbOutcomes :
          Begin(inp.prompt_type, inp.context, u, ok)
    \/ \E out \in RetryOutcomes, ok1 \in DbOutcomes, ok2 \in DbOutcomes, ok3 \in DbOutcomes :
          Attempt(out, ok1, ok2, ok3)
    \/ Sleep
    \/ \E d \in TickSteps : BetweenCalls /\ Tick(d)

SpecRetry == Init /\ [][NextRetry]_vars

\* The calls under an upstream that answers in code fences.
FenceOutcomes ==
    {[kind |-> "text", body |-> t] : t \in FenceTexts \cup {TextCalm, TextFenced}}

NextFence ==
    \/ \E inp \in CallInputs, u \in UseCacheArgs, ok \in DbOutcomes :
          Begin(inp.prompt_type, inp.context, u, ok)
    \/ \E out \in FenceOutcomes, ok1 \in DbOutcomes, ok2 \in DbOutcomes, ok3 \in DbOutcomes :
          Attempt(out, ok1, ok2, ok3)
    \/ \E d \in TickSteps : BetweenCalls /\ Tick(d)

SpecFence == Init /\ [][NextFence]_vars

\* The calls over a datastore whose requests can fail: each lookup, store
\* and log insert either succeeds or raises.
NextFaulty ==
    \/ \E u \in UseCacheArgs, ok \in BOOLEAN :
          Begin("mood_summary",
                << <<"mood_data", PyStr("m1")>>, <<"days", PyInt("7")>> >>, u, ok)
    \/ \E out \in RetryOutcomes, ok1 \in BOOLEAN, ok2 \in BOOLEAN, ok3 \in BOOLEAN :
          Attempt(out, ok1, ok2, ok3)
    \/ Sleep
    \/ \E d \in TickSteps : BetweenCalls /\ Tick(d)

SpecFaulty == Init /\ [][NextFaulty]_vars

\* The attribute enable_caching of the service is assigned between two
\* calls.
SetEnableCaching(flag) ==
    /\ call.pc \in {"idle", "done"}
    /\ enable_caching # flag
    /\ enable_caching' = flag
    /\ UNCHANGED <<ai_vars, store_vars, now, ticks, probe, users_db>>

\* The calls with either value of use_cache, on a service whose
\* enable_caching can be switched off and on.
NextFlags ==
    \/ \E inp \in CallInputs, u \in BOOLEAN, ok \in DbOutcomes :
          Begin(inp.prompt_type, inp.context, u, ok)
    \/ \E out \in RetryOutcomes, ok1 \in DbOutcomes, ok2 \in DbOutcomes, ok3 \in DbOutcomes :
          Attempt(out, ok1, ok2, ok3)
    \/ Sleep
    \/ \E d \in TickSteps : BetweenCalls /\ Tick(d)
    \/ \E flag \in BOOLEAN : SetEnableCaching(flag)

SpecFlags == Init /\ [][NextFlags]_vars

\* The calls of the decorated function over a datastore whose requests can
\* fail, with the clock.
NextCached ==
    \/ \E ttl \in TtlArgs, a \in CachedArgs, r \in StoreValues,
          ok1 \in BOOLEAN, ok3 \in BOOLEAN :
          \E ok2 \in (IF ok1 THEN BOOLEAN ELSE {TRUE}) :
              cached("user_profile", ttl, a, r, ok1, ok2, ok3)
    \/ \E d \in {1, default_ttl} : Tick(d)

SpecCached == Init /\ [][NextCached]_vars

\* A call in its backoff next to the CacheService requests of the other
\* handlers of the event loop.
BackoffOutcomes ==
    {[kind |-> "exc", body |-> ExcRateLimit], [kind |-> "text", body |-> TextCalm]}

NextBackoff ==
    \/ \E u \in UseCacheArgs, ok \in DbOutcomes :
          Begin("mood_summary",
                << <<"mood_data", PyStr("m1")>>, <<"days", PyInt("7")>> >>, u, ok)
    \/ \E out \in BackoffOutcomes, ok1 \in DbOutcomes, ok2 \in DbOutcomes, ok3 \in DbOutcomes :
          Attempt(out, ok1, ok2, ok3)
    \/ Sleep
    \/ \E k \in StoreKeys, v \in StoreValues, ttl \in TtlArgs, ok \in DbOutcomes :
          CacheSet(k, v, ttl, ok)
    \/ \E k \in StoreKeys, ok1 \in DbOutcomes, ok2 \in DbOutcomes :
          CacheGet(k, ok1, ok2)

SpecBackoff == Init /\ [][NextBackoff]_vars

\* The contexts given to _get_fallback_response: empty, and two of the
\* contexts of the calls.
FallbackContexts ==
    {<< >>,
     << <<"content", PyStr("c1")>> >>,
     << <<"mood_data", PyStr("m1")>>, <<"days", PyInt("7")>> >>}

\* self._get_fallback_response(prompt_type, context)
GetFallbackResponse(prompt_type, context) ==
    /\ probe' = [op |-> "_get_fallback_response", prompt_type |-> prompt_type,
                 context |-> context,
                 result |-> _get_fallback_response(prompt_type, context)]
    /\ UNCHANGED <<ai_vars, store_vars, now, ticks, users_db, enable_caching>>

(***************************************************************************)
(* EncryptionService (services/encryption_service.py).  A bytes value is   *)
(* the sequence of its bytes.  Fernet is the authenticated encryption of   *)
(* the cryptography package, kept symbolic: a token carries the version    *)
(* prefix, the random IV, the data and a MAC under the key, and decrypt    *)
(* gives the data back only when the token is well formed and the MAC is   *)
(* the one the key gives.                                                   *)
(***************************************************************************)
\* The characters of the texts, by ranges of code points: the first code
\* point of a range and its characters in order (U+0020..U+005F,
\* U+0061..U+007E, and three of Latin-1).
CodeRanges ==
    << <<32, " !\"#$%&'()*+,-./0123456789:;<=>?@ABCDEFGHIJKLMNOPQRSTUVWXYZ[\\]^_">>,
       <<97, "abcdefghijklmnopqrstuvwxyz{|}~">>,
       <<169, "©">>, <<195, "Ã">>, <<233, "é">> >>

\* ord(c)
Ord(c) ==
    LET r == CodeRanges[CHOOSE i \in 1..Len(CodeRanges) : Contains(CodeRanges[i][2], c)]
    IN  r[1] + (CHOOSE i \in 1..Len(r[2]) : CharAt(r[2], i) = c) - 1

\* chr(n)
Chr(n) ==
    LET r == CodeRanges[CHOOSE i \in 1..Len(CodeRanges) :
                            /\ n >= CodeRanges[i][1]
                            /\ n < CodeRanges[i][1] + Len(CodeRanges[i][2])]
    IN  CharAt(r[2], n - r[1] + 1)

RECURSIVE Utf8Encode(_)
\* s.encode('utf-8'): one byte below U+0080, two bytes below U+0800
Utf8Encode(s) ==
    IF s = "" THEN <<>>
    ELSE IF Len(s) = 1
    THEN LET n == Ord(s) IN
         IF n < 128 THEN <<n>> ELSE <<192 + (n \div 64), 128 + (n % 64)>>
    ELSE Utf8Encode(SubSeq(s, 1, Len(s) \div 2))
         \o Utf8Encode(DropFirst(s, Len(s) \div 2))

RECURSIVE BytesAsText(_)
\* The bytes taken one character each, as base64 reads a token.
BytesAsText(bytes) ==
    IF bytes = <<>> THEN ""
    ELSE IF Len(bytes) = 1 THEN Chr(bytes[1])
    ELSE BytesAsText(SubSeq(bytes, 1, Len(bytes) \div 2))
         \o BytesAsText(SubSeq(bytes, Len(bytes) \div 2 + 1, Len(bytes)))

\* A decoder that takes every byte for a character.
DecodeBytewise(bytes) == Some(BytesAsText(bytes))

RECURSIVE Utf8Decode(_)
\* bytes.decode('utf-8'): None stands for UnicodeDecodeError.  The bytes
\* are decoded in two parts, cut where a character begins.
Utf8Decode(bytes) ==
    LET IsContinuation(b) == b >= 128 /\ b < 192
        IsLeadOfTwo(b) == b >= 192 /\ b < 224
    IN
    IF bytes = <<>> THEN Some("")
    ELSE IF Len(bytes) = 1
    THEN (IF bytes[1] < 128 THEN Some(Chr(bytes[1])) ELSE None)
    ELSE IF Len(bytes) = 2 /\ IsContinuation(bytes[2])
    THEN (IF IsLeadOfTwo(bytes[1])
          THEN Some(Chr((bytes[1] - 192) * 64 + (bytes[2] - 128)))
          ELSE None)
    ELSE LET half  == Len(bytes) \div 2
             cut   == IF IsContinuation(bytes[half + 1]) THEN half + 1 ELSE half
             left  == Utf8Decode(SubSeq(bytes, 1, cut))
             right == Utf8Decode(SubSeq(bytes, cut + 1, Len(bytes)))
         IN  IF left = None \/ right = None THEN None
             ELSE Some(TheValue(left) \o TheValue(right))

HexDigits == "0123456789abcdef"

RECURSIVE Hex(_)
\* The bytes written two hexadecimal digits each, as the token carries them.
Hex(bytes) ==
    IF bytes = <<>> THEN ""
    ELSE IF Len(bytes) = 1
    THEN CharAt(HexDigits, (bytes[1] \div 16) + 1)
         \o CharAt(HexDigits, (bytes[1] % 16) + 1)
    ELSE Hex(SubSeq(bytes, 1, Len(bytes) \div 2))
         \o Hex(SubSeq(bytes, Len(bytes) \div 2 + 1, Len(bytes)))

RECURSIVE UnHex(_)
\* The bytes of a text of hexadecimal digits; None when it is not one.
UnHex(text) ==
    IF text = "" THEN Some(<<>>)
    ELSE IF Len(text) = 1 THEN None
    ELSE IF Len(text) = 2
    THEN (IF Contains(HexDigits, SubSeq(text, 1, 1))
             /\ Contains(HexDigits, SubSeq(text, 2, 2))
          THEN LET Digit(c) == (CHOOSE i \in 1..16 : CharAt(HexDigits, i) = c) - 1
               IN  Some(<<Digit(SubSeq(text, 1, 1)) * 16 + Digit(SubSeq(text, 2, 2))>>)
          ELSE None)
    ELSE LET cut   == 2 * (Len(text) \div 4)
             left  == UnHex(SubSeq(text, 1, cut))
             right == UnHex(DropFirst(text, cut))
         IN  IF left = None \/ right = None THEN None
             ELSE Some(TheValue(left) \o TheValue(right))

\* hashlib.sha256 and urlsafe_b64encode of _derive_key: a digest that
\* differs for different key strings.
_derive_key(key_string) == Hex(Utf8Encode(key_string))

RECURSIVE Checksum(_)
\* A digest of a text: the sum of its characters, modulo 16.
Checksum(text) ==
    IF text = "" THEN 0
    ELSE IF Len(text) = 1 THEN Ord(text) % 16
    ELSE (Checksum(SubSeq(text, 1, Len(text) \div 2))
          + Checksum(DropFirst(text, Len(text) \div 2))) % 16

\* The HMAC of a token body under a key.
Mac(key, body) == key \o CharAt(HexDigits, Checksum(body) + 1)

\* The first bytes of every Fernet token (version 0x80) in base64.
TokenPrefix == "gAAAAA"

\* Fernet(key).encrypt(data) with the IV it drew
FernetEncrypt(key, iv, data) ==
    LET body == iv \o Hex(data) IN
    Utf8Encode(TokenPrefix \o body \o "." \o Mac(key, body))

\* A decryption that does not verify the MAC.
DecryptUnverified(key, token) ==
    LET text == BytesAsText(token)
        dots == {i \in 1..Len(text) : CharAt(text, i) = "."}
    IN
    IF ~StartsWith(text, TokenPrefix) \/ dots = {} THEN None
    ELSE UnHex(SubSeq(text, Len(TokenPrefix) + 2, Min(dots) - 1))

\* Fernet(key).decrypt(token): None stands for InvalidToken
FernetDecrypt(key, token) ==
    LET text == BytesAsText(token)
        dots == {i \in 1..Len(text) : CharAt(text, i) = "."}
    IN
    IF ~StartsWith(text, TokenPrefix) \/ dots = {} THEN None
    ELSE LET body == SubSeq(text, Len(TokenPrefix) + 1, Min(dots) - 1)
             mac  == DropFirst(text, Min(dots))
         IN  IF Len(body) < 1 \/ mac # Mac(key, body) THEN None
             ELSE UnHex(DropFirst(body, 1))

\* What a method gives its caller: a value, or an exception.
Return(value) == [kind |-> "return", value |-> value]
Raise(exc, msg) == [kind |-> "raise", exc |-> exc, msg |-> msg]

\* EncryptionService(key_string).encrypt(plaintext)
encrypt(key_string, plaintext, iv) ==
    IF plaintext = "" THEN Raise("ValueError", "Cannot encrypt empty string")
    ELSE LET encrypted_bytes ==
                 FernetEncrypt(_derive_key(key_string), iv, Utf8Encode(plaintext))
             encrypted_string == Utf8Decode(encrypted_bytes)
         IN  IF encrypted_string = None
             THEN Raise("Exception", "Encryption failed: invalid utf-8")
             ELSE Return(TheValue(encrypted_string))

\* EncryptionService(key_string).decrypt(ciphertext)
decrypt(key_string, ciphertext) ==
    IF ciphertext = "" THEN Raise("ValueError", "Cannot decrypt empty string")
    ELSE LET decrypted_bytes ==
                 FernetDecrypt(_derive_key(key_string), Utf8Encode(ciphertext))
         IN  IF decrypted_bytes = None THEN Raise("Exception", "Decryption failed: ")
             ELSE LET decrypted_string == Utf8Decode(TheValue(decrypted_bytes)) IN
                  IF decrypted_string = None
                  THEN Raise("Exception", "Decryption failed: invalid utf-8")
                  ELSE Return(TheValue(decrypted_string))

RECURSIVE JsonDataItems(_)
\* The items of a dict as json.dumps writes them, for keys that are str or
\* int: every key as a JSON string, a str as it is, an int by its digits.
JsonDataItems(items) ==
    IF Len(items) = 0 THEN ""
    ELSE "\"" \o PyFormat(items[1][1]) \o "\": " \o JsonDumps(items[1][2])
         \o (IF Len(items) > 1 THEN ", " ELSE "") \o JsonDataItems(Tail(items))

\* json.dumps(data) for a dict of such keys whose values are None, str or
\* int: the items in insertion order
JsonDumpsData(data) == "{" \o JsonDataItems(data) \o "}"

\* The positions of p in s.
Find(s, p) == {i \in 1..(Len(s) - Len(p) + 1) : SubSeq(s, i, i + Len(p) - 1) = p}

RECURSIVE JsonLoadsItems(_)
JsonLoadsItems(inner) ==
    IF inner = "" THEN <<>>
    ELSE LET seps  == Find(inner, ", ")
             item  == IF seps = {} THEN inner ELSE SubSeq(inner, 1, Min(seps) - 1)
             rest  == IF seps = {} THEN "" ELSE DropFirst(inner, Min(seps) + 1)
             colon == Min(Find(item, "\": "))
         IN  << <<PyStr(SubSeq(item, 2, colon - 1)),
                  JsonLoads(DropFirst(item, colon + 2))>> >>
             \o JsonLoadsItems(rest)

\* json.loads(text) for the text of a JSON object whose strings hold no
\* separator: the keys come back as str.  None stands for JSONDecodeError.
JsonLoadsObject(text) ==
    IF Len(text) < 2 \/ ~StartsWith(text, "{") \/ CharAt(text, Len(text)) # "}"
    THEN None
    ELSE Some(JsonLoadsItems(SubSeq(text, 2, Len(text) - 1)))

\* EncryptionService(key_string).encrypt_dict(data)
encrypt_dict(key_string, data, iv) == encrypt(key_string, JsonDumpsData(data), iv)

\* EncryptionService(key_string).decrypt_dict(ciphertext)
decrypt_dict(key_string, ciphertext) ==
    LET json_string == decrypt(key_string, ciphertext) IN
    IF json_string.kind = "raise" THEN json_string
    ELSE LET loaded == JsonLoadsObject(json_string.value) IN
         IF loaded = None THEN Raise("JSONDecodeError", "Expecting value")
         ELSE Return(TheValue(loaded))

\* The key strings of two services.
EncryptionKeys == {"key_one", "key_two"}
\* The IVs Fernet may draw.
Ivs == {"A", "B"}
\* The plaintexts given to encrypt.
Plaintexts == {"", "Secret message", "café 8", "{}"}
\* The dicts given to encrypt_dict.
DataDicts ==
    {<< >>,
     << <<PyStr("mood"), PyStr("happy")>>, <<PyStr("intensity"), PyInt("8")>> >>,
     << <<PyInt("1"), PyStr("a")>> >>}
\* Strings that no encrypt call has produced.
ArbitraryCiphertexts == {"", "invalid_encrypted_data"}

\* The ciphertexts a caller can hand to decrypt: what the last encrypt call
\* returned, as it is, with one character of its body changed, or cut
\* short; and the arbitrary strings.
CiphertextsAtHand(op) ==
    LET Given(how, ciphertext, key, plain) ==
            [how |-> how, ciphertext |-> ciphertext, key |-> key, plain |-> plain]
        Corrupted(token) ==
            LET i == Len(TokenPrefix) + 3 IN
            SubSeq(token, 1, i - 1) \o (IF CharAt(token, i) = "1" THEN "2" ELSE "1")
            \o DropFirst(token, i)
        CutShort(token) == SubSeq(token, 1, Len(token) - 1)
    IN
    {Given("arbitrary", c, "", "") : c \in ArbitraryCiphertexts}
    \cup (IF probe.op = op /\ probe.result.kind = "return"
          THEN {Given("token", probe.result.value, probe.key, probe.plain),
                Given("corrupted", Corrupted(probe.result.value), probe.key, probe.plain),
                Given("cut short", CutShort(probe.result.value), probe.key, probe.plain)}
          ELSE {})

Encrypt(key_string, plaintext, iv) ==
    /\ probe' = [op |-> "encrypt", key |-> key_string, plain |-> plaintext,
                 result |-> encrypt(key_string, plaintext, iv)]
    /\ UNCHANGED <<ai_vars, store_vars, now, ticks, users_db, enable_caching>>

Decrypt(key_string) ==
    \E g \in CiphertextsAtHand("encrypt") :
        /\ probe' = [op |-> "decrypt", key |-> key_string, given |-> g,
                     result |-> decrypt(key_string, g.ciphertext)]
        /\ UNCHANGED <<ai_vars, store_vars, now, ticks, users_db, enable_caching>>

EncryptDict(key_string, data, iv) ==
    /\ probe' = [op |-> "encrypt_dict", key |-> key_string, plain |-> data,
                 result |-> encrypt_dict(key_string, data, iv)]
    /\ UNCHANGED <<ai_vars, store_vars, now, ticks, users_db, enable_caching>>

DecryptDict(key_string) ==
    \E g \in CiphertextsAtHand("encrypt_dict") :
        /\ probe' = [op |-> "decrypt_dict", key |-> key_string, given |-> g,
                     result |-> decrypt_dict(key_string, g.ciphertext)]
        /\ UNCHANGED <<ai_vars, store_vars, now, ticks, users_db, enable_caching>>

(***************************************************************************)
(* The /api/users endpoints (routers/users.py) behind the dependency       *)
(* get_current_user.  The datastore is reduced to what it holds for the    *)
(* user of the request: whether the profile row exists, and the theme and  *)
(* the notification settings of the user_settings row, if any.             *)
(***************************************************************************)
\* DUMMY_USER['id'] of dev_auth.py
DUMMY_USER == "00000000-0000-0000-0000-000000000001"

\* A dependency that asks for the Authorization header as HTTPBearer()
\* does: 403 when the request carries none.
RequireBearer(credentials) ==
    IF credentials THEN [status |-> 200, user |-> DUMMY_USER]
    ELSE [status |-> 403, user |-> ""]

\* get_current_user as middleware/__init__.py binds it: the function
\* get_current_user_dev, which takes nothing from the request and returns
\* DUMMY_USER.
get_current_user(credentials) == [status |-> 200, user |-> DUMMY_USER]

\* The request bodies of the two PUT endpoints.  The fields of
\* NotificationSettings that a body leaves out are True.
ThemeBodies == {"light", "dark", "system"}
NotificationBodies ==
    [email_notifications : BOOLEAN, push_notifications : BOOLEAN]

\* Outcomes of the datastore requests of one handler: TRUE when they succeed.
UsersDbOutcomes == BOOLEAN

\* The response to a request and the datastore after it.  A request the
\* dependency rejects does not reach its handler.
Respond(endpoint, credentials, handled) ==
    LET auth == get_current_user(credentials) IN
    IF auth.status # 200
    THEN /\ probe' = [op |-> "users", endpoint |-> endpoint,
                      credentials |-> credentials, status |-> auth.status,
                      requests |-> 0]
         /\ users_db' = users_db
    ELSE /\ probe' = [op |-> "users", endpoint |-> endpoint,
                      credentials |-> credentials, status |-> handled.status,
                      requests |-> handled.requests]
         /\ users_db' = handled.db

\* GET /profile
get_profile(credentials, db_ok) ==
    /\ Respond("GET /profile", credentials,
               [status |-> IF ~db_ok THEN 500
                           ELSE IF users_db.profile THEN 200 ELSE 404,
                requests |-> 1, db |-> users_db])
    /\ UNCHANGED <<ai_vars, store_vars, now, ticks, enable_caching>>

\* PUT /settings/theme
update_theme_preferences(credentials, theme, db_ok) ==
    /\ Respond("PUT /settings/theme", credentials,
               [status |-> IF db_ok THEN 200 ELSE 500,
                requests |-> 1,
                db |-> IF db_ok THEN [users_db EXCEPT !.theme = Some(theme)]
                                ELSE users_db])
    /\ UNCHANGED <<ai_vars, store_vars, now, ticks, enable_caching>>

\* GET /settings/notifications
get_notification_settings(credentials, db_ok) ==
    /\ Respond("GET /settings/notifications", credentials,
               [status |-> IF db_ok THEN 200 ELSE 500,
                requests |-> 1, db |-> users_db])
    /\ UNCHANGED <<ai_vars, store_vars, now, ticks, enable_caching>>

\* PUT /settings/notifications
update_notification_settings(credentials, settings, db_ok) ==
    /\ Respond("PUT /settings/notifications", credentials,
               [status |-> IF db_ok THEN 200 ELSE 500,
                requests |-> 1,
                db |-> IF db_ok
                       THEN [users_db EXCEPT !.notification_settings = Some(settings)]
                       ELSE users_db])
    /\ UNCHANGED <<ai_vars, store_vars, now, ticks, enable_caching>>

\* GET /data/export: eight selects, one for each table of the export; the
\* first one that fails ends the handler.
export_user_data(credentials, db_ok) ==
    /\ Respond("GET /data/export", credentials,
               [status |-> IF db_ok THEN 200 ELSE 500,
                requests |-> IF db_ok THEN 8 ELSE 1, db |-> users_db])
    /\ UNCHANGED <<ai_vars, store_vars, now, ticks, enable_caching>>

\* DELETE /account: ten deletes, the last two of user_settings and profiles;
\* the first one that fails ends the handler.
delete_account(credentials, db_ok) ==
    /\ Respond("DELETE /account", credentials,
               [status |-> IF db_ok THEN 200 ELSE 500,
                requests |-> IF db_ok THEN 10 ELSE 1,
                db |-> IF db_ok
                       THEN [profile |-> FALSE, theme |-> None,
                             notification_settings |-> None]
                       ELSE users_db])
    /\ UNCHANGED <<ai_vars, store_vars, now, ticks, enable_caching>>

NextUsers ==
    \/ \E c \in BOOLEAN, ok \in UsersDbOutcomes : get_profile(c, ok)
    \/ \E c \in BOOLEAN, t \in ThemeBodies, ok \in UsersDbOutcomes :
          update_theme_preferences(c, t, ok)
    \/ \E c \in BOOLEAN, ok \in UsersDbOutcomes : get_notification_settings(c, ok)
    \/ \E c \in BOOLEAN, s \in NotificationBodies, ok \in UsersDbOutcomes :
          update_notification_settings(c, s, ok)
    \/ \E c \in BOOLEAN, ok \in UsersDbOutcomes : export_user_data(c, ok)
    \/ \E c \in BOOLEAN, ok \in UsersDbOutcomes : delete_account(c, ok)

SpecUsers == Init /\ [][NextUsers]_vars

\* The helpers on their own.
NextHelpers ==
    \/ \E r \in ValidateTexts, p \in PromptType : ValidateResponse(r, p)
    \/ \E p \in PromptType, c \in FallbackContexts : GetFallbackResponse(p, c)

SpecHelpers == Init /\ [][NextHelpers]_vars

\* The methods of EncryptionService, each decrypt on a ciphertext at hand.
NextEncryption ==
    \/ \E k \in EncryptionKeys, p \in Plaintexts, iv \in Ivs : Encrypt(k, p, iv)
    \/ \E k \in EncryptionKeys : Decrypt(k)
    \/ \E k \in EncryptionKeys, d \in DataDicts, iv \in Ivs : EncryptDict(k, d, iv)
    \/ \E k \in EncryptionKeys : DecryptDict(k)

SpecEncryption == Init /\ [][NextEncryption]_vars

(***************************************************************************)
(* Vocabulary of the properties.                                           *)
(***************************************************************************)
\* The call has returned to its caller.
Returned == call.pc = "done" /\ call.ending \in {"cache", "generated", "fallback"}

\* The texts that can pass _validate_response for a prompt type.
ValidatedTexts ==
    [p \in PromptType |-> {Cleaned[t] : t \in {u \in UpstreamTexts : p \in Accepted[u]}}]

\* Attempt i of the call failed: the upstream request raised, or gave a text
\* the validator rejected.
AttemptFailed(i) ==
    \/ call.hist[i].kind = "exc"
    \/ call.hist[i].kind = "text" /\ call.prompt_type \notin Accepted[call.hist[i].body]

\* Attempt i of the call gave a text the validator accepted.
AttemptValid(i) ==
    call.hist[i].kind = "text" /\ call.prompt_type \in Accepted[call.hist[i].body]

\* Row i of ai_cache is an unexpired entry of the key at time t.
UnexpiredEntry(i, cache_key, t) ==
    /\ ai_cache[i].cache_key = cache_key
    /\ t - ai_cache[i].created_at <= CacheTtl

TypeOK ==
    /\ calls \in 0..MaxCalls
    /\ ticks \in 0..MaxTicks
    /\ call.attempt \in 0..max_retries
    /\ call.pc \in {"idle", "generate", "backoff", "done"}

(***************************************************************************)
(* Properties of generate_response.                                        *)
(***************************************************************************)
\* C1: a call that returns gives a non-empty text that is the validated
\* text of an upstream attempt of this call, or the response of a cache
\* entry that was unexpired at the lookup and is a validated text of the
\* type it was stored under, or the fallback string of the prompt type.
C1_ReturnedValueIsOneOfThree ==
    Returned =>
        /\ IsSome(call.result)
        /\ Len(TheValue(call.result)) > 0
        /\ \/ /\ call.ending = "generated"
              /\ \E i \in 1..Len(call.hist) :
                    /\ AttemptValid(i)
                    /\ call.result = Some(Cleaned[call.hist[i].body])
           \/ /\ call.ending = "cache"
              /\ \E i \in 1..Len(ai_cache) :
                    /\ UnexpiredEntry(i, call.cache_key, call.began)
                    /\ ai_cache[i].response = TheValue(call.result)
                    /\ ai_cache[i].response \in ValidatedTexts[ai_cache[i].prompt_type]
           \/ /\ call.ending = "fallback"
              /\ call.result = Some(fallbacks[call.prompt_type])

C1_Witness ==
    /\ Returned
    /\ call.ending = "cache"
    /\ calls = 2

\* C2: whatever the upstream requests of a call did (exceptions of both
\* kinds, rejected texts), the call does not raise: once it has ended it has
\* returned a string.
C2_UpstreamFailureNeverRaises ==
    /\ call.ending # "raised"
    /\ (call.pc = "done" /\ \E i \in 1..Len(call.hist) : AttemptFailed(i)) =>
            Returned /\ IsSome(call.result)

C2_Witness ==
    /\ Returned
    /\ Len(call.hist) = max_retries
    /\ call.hist[1] = [kind |-> "exc", body |-> ExcOther]
    /\ call.hist[2] = [kind |-> "exc", body |-> ExcRateLimit]
    /\ call.hist[3] = [kind |-> "text", body |-> TextShort]

\* C3: one call makes at most max_retries upstream requests, and inside a
\* call the attempt counter never decreases and never exceeds max_retries.
C3_AtMostMaxRetriesAttempts ==
    /\ [](call.upstream <= max_retries /\ call.attempt <= max_retries
          /\ Len(call.hist) = call.upstream)
    /\ [][calls' = calls => call'.attempt >= call.attempt]_vars

C3_Witness ==
    /\ call.pc = "done"
    /\ call.upstream = max_retries
    /\ \E i, j \in 1..max_retries :
          /\ call.hist[i].kind = "exc"
          /\ call.hist[j].kind = "text"

\* C4: when the first max_retries - 1 attempts fail and the last one gives a
\* valid text, the call returns that text, not the fallback; and a call
\* whose latest attempt was rejected by the validator with attempts left
\* has not ended: it is about to make one more attempt.
C4_SuccessOnLastAttempt ==
    /\ (/\ call.pc = "done"
        /\ Len(call.hist) = max_retries
        /\ \A i \in 1..(max_retries - 1) : AttemptFailed(i)
        /\ AttemptValid(max_retries)) =>
            /\ call.ending = "generated"
            /\ call.result = Some(Cleaned[call.hist[max_retries].body])
            /\ call.result # Some(fallbacks[call.prompt_type])
    /\ (/\ call.pc # "idle"
        /\ Len(call.hist) \in 1..(max_retries - 1)
        /\ call.hist[Len(call.hist)].kind = "text"
        /\ AttemptFailed(Len(call.hist))) =>
            /\ call.pc = "generate"
            /\ call.attempt = Len(call.hist)

C4_Witness ==
    /\ call.pc = "done"
    /\ Len(call.hist) = max_retries
    /\ call.hist[1].kind = "text" /\ AttemptFailed(1)
    /\ call.hist[2].kind = "exc"
    /\ AttemptValid(max_retries)
    /\ call.ending = "generated"

\* C5: when all max_retries attempts fail, the call returns exactly the
\* fallback string of its prompt type, and the last row of ai_logs is the
\* unsuccessful record "Using fallback response" carrying that text.
C5_TotalFailureGivesFallback ==
    (/\ call.pc = "done"
     /\ Len(call.hist) = max_retries
     /\ \A i \in 1..max_retries : AttemptFailed(i)) =>
        /\ call.ending = "fallback"
        /\ call.result = Some(fallbacks[call.prompt_type])
        /\ Len(ai_logs) >= 1
        /\ LET rec == ai_logs[Len(ai_logs)] IN
              /\ rec.success = FALSE
              /\ rec.error = Some("Using fallback response")
              /\ rec.response = Some(fallbacks[call.prompt_type])
              /\ rec.prompt_type = call.prompt_type

C5_Witness ==
    /\ call.pc = "done"
    /\ call.ending = "fallback"
    /\ Len(call.hist) = max_retries
    /\ \E i, j \in 1..max_retries :
          /\ call.hist[i].kind = "exc"
          /\ call.hist[j].kind = "text"

\* C6: a call that uses the cache and begins while ai_cache holds an
\* unexpired entry of its key returns the text of such an entry in that
\* step, without an upstream request, without a prompt and without a write
\* to ai_cache.
C6_CacheHitBypassesGeneration ==
    [][(/\ calls' = calls + 1
        /\ call'.use_cache
        /\ \E i \in 1..Len(ai_cache) : UnexpiredEntry(i, call'.cache_key, now)) =>
            /\ call'.pc = "done"
            /\ call'.ending = "cache"
            /\ \E i \in 1..Len(ai_cache) :
                  /\ UnexpiredEntry(i, call'.cache_key, now)
                  /\ call'.result = Some(ai_cache[i].response)
            /\ call'.upstream = 0
            /\ call'.prompt = None
            /\ call'.stores = 0
            /\ ai_cache' = ai_cache]_vars

C6_Witness ==
    /\ call.pc = "done"
    /\ call.ending = "cache"
    /\ call.use_cache
    /\ call.upstream = 0
    /\ \E i \in 1..Len(ai_cache) :
          /\ ai_cache[i].cache_key = call.cache_key
          /\ call.began - ai_cache[i].created_at = CacheTtl

\* C7: after a call that looked its key up, missed, and got a valid text T
\* from its first attempt, the next call with the same prompt type and
\* context that uses the cache and begins within the TTL returns T and makes
\* no upstream request.
C7_SecondIdenticalCallServedFromCache ==
    (/\ call.pc # "idle"
     /\ IsSome(prev.first_try)
     /\ call.cache_key = prev.cache_key
     /\ call.use_cache
     /\ call.began - prev.at <= CacheTtl) =>
        /\ call.pc = "done"
        /\ call.ending = "cache"
        /\ call.result = prev.first_try
        /\ call.upstream = 0

C7_Witness ==
    /\ call.pc = "done"
    /\ IsSome(prev.first_try)
    /\ call.cache_key = prev.cache_key
    /\ call.use_cache
    /\ call.began - prev.at = CacheTtl
    /\ call.result = prev.first_try

\* C8: a call whose context lacks a field of the template raises to its
\* caller: no upstream request, no write to ai_cache, no fallback text.
C8_MissingFieldRaises ==
    (call.pc # "idle" /\ MissingField(call.prompt_type, call.context)) =>
        /\ call.pc = "done"
        /\ call.ending = "raised"
        /\ call.upstream = 0
        /\ call.stores = 0
        /\ call.result = None

(***************************************************************************)
(* Properties of the two caches (SpecCache).                               *)
(***************************************************************************)
\* C9: a lookup never returns an expired entry.  A call served from
\* ai_cache returns the response of a row of its key created at most
\* cache_ttl_hours before the lookup; a CacheService.get that returns a
\* stored value returns the value of a row whose expires_at is not earlier
\* than the time of the get.
C9_ExpiredEntryNeverReturned ==
    /\ (call.pc = "done" /\ call.ending = "cache") =>
          \E i \in 1..Len(ai_cache) :
             /\ ai_cache[i].cache_key = call.cache_key
             /\ ai_cache[i].response = TheValue(call.result)
             /\ call.began - ai_cache[i].created_at <= cache_ttl_hours * 3600
    /\ (last_op.op = "get" /\ last_op.hit) =>
          /\ IsSome(response_cache[last_op.key])
          /\ TheValue(response_cache[last_op.key]).expires_at >= last_op.at
          /\ last_op.value = JsonLoads(TheValue(response_cache[last_op.key]).value)
    /\ (last_op.op = "get" /\ ~last_op.hit) => last_op.value = PyNone

\* Both lookups have met an expired entry and returned absent.
C9_Witness ==
    /\ last_op.op = "get" /\ last_op.expired /\ ~last_op.hit
    /\ call.pc = "generate" /\ call.looked
    /\ \E i \in 1..Len(ai_cache) :
          /\ ai_cache[i].cache_key = call.cache_key
          /\ call.began - ai_cache[i].created_at > CacheTtl

\* The AI cache half of C10: after a lookup that returned absent, ai_cache
\* holds no row of the key that had expired by the time of the lookup.
C10_AiCacheLookupRemovesExpired ==
    (call.pc # "idle" /\ call.looked /\ call.ending # "cache") =>
        \A i \in 1..Len(ai_cache) :
            ai_cache[i].cache_key = call.cache_key =>
                call.began - ai_cache[i].created_at <= CacheTtl

\* The CacheService half of C10: after a get that met an expired row,
\* response_cache holds no row of the key.
C10_CacheServiceGetRemovesExpired ==
    (last_op.op = "get" /\ last_op.expired) => response_cache[last_op.key] = None

C10_CacheServiceWitness ==
    last_op.op = "get" /\ last_op.expired /\ response_cache[last_op.key] = None

\* C10: a lookup of a key whose entry has expired removes the entry from the
\* store, for the AI response cache and for CacheService.get.
C10_ExpiredEntryRemovedOnLookup ==
    /\ C10_AiCacheLookupRemovesExpired
    /\ C10_CacheServiceGetRemovesExpired

\* The AI cache half of C11: ai_cache holds at most one row for a key, and
\* after a call that generated and stored a text every row of its key holds
\* that text.
C11_AiCacheStoreIsUpsert ==
    /\ \A i, j \in 1..Len(ai_cache) :
          ai_cache[i].cache_key = ai_cache[j].cache_key => i = j
    /\ (call.pc = "done" /\ call.ending = "generated") =>
          \A i \in 1..Len(ai_cache) :
             ai_cache[i].cache_key = call.cache_key =>
                ai_cache[i].response = TheValue(call.result)

\* The CacheService half of C11: after a set, the one row of the key holds
\* the value and the expiry of that set, and the set reported success.
C11_CacheServiceSetIsUpsert ==
    last_op.op = "set" =>
        /\ last_op.hit
        /\ IsSome(response_cache[last_op.key])
        /\ TheValue(response_cache[last_op.key]).value = JsonDumps(last_op.value)
        /\ TheValue(response_cache[last_op.key]).expires_at >= last_op.at

\* A second set of a key has replaced the value of the first.
C11_CacheServiceWitness ==
    /\ last_op.op = "set"
    /\ sets = 2
    /\ last_op.value = PyStr("null")
    /\ TheValue(response_cache[last_op.key]).value = "\"null\""

\* C11: a store is an upsert and the last writer wins.  After any sequence
\* of stores for a key the store holds exactly one entry of the key, with the
\* text of the latest store, and a regenerated response supersedes the
\* earlier (possibly expired) entry; no store reports an error.
C11_StoreIsUpsertLastWriterWins ==
    /\ C11_AiCacheStoreIsUpsert
    /\ C11_CacheServiceSetIsUpsert

(***************************************************************************)
(* Properties of the cache key (SpecKey).                                  *)
(***************************************************************************)
\* Two calls have the same logical content: the same prompt type and
\* contexts that are equal as Python dicts (same fields, same values).
SameContent(a, b) ==
    /\ a.prompt_type = b.prompt_type
    /\ Items(a.context) = Items(b.context)

\* C12: two calls get the same cache key exactly when they have the same
\* prompt type and the same fields and values, in whatever order the fields
\* of the context were inserted; a difference in the prompt type or in one
\* value gives a different key.  The key of a call is the key of its
\* arguments whenever it is computed again.
C12_CacheKeyIgnoresFieldOrder ==
    (call.pc # "idle" /\ prev # NoPrev) =>
        /\ SameContent(prev, call) <=> call.cache_key = prev.cache_key
        /\ call.cache_key = _get_cache_key(call.prompt_type, call.context)
        /\ prev.cache_key = _get_cache_key(prev.prompt_type, prev.context)

\* Two calls whose contexts hold the same items in a different order got
\* the same key.
C12_Witness ==
    /\ call.pc # "idle" /\ prev # NoPrev
    /\ call.context # prev.context
    /\ SameContent(prev, call)
    /\ call.cache_key = prev.cache_key
    /\ call.cache_key =
          "{\"context\": {\"days\": 7, \"mood_data\": \"m1\"}, \"type\": \"mood_summary\"}"

\* Two calls that differ in the type of one value, and two that differ in
\* the prompt type only, got different keys.
C12_WitnessDifferent ==
    /\ call.pc # "idle" /\ prev # NoPrev
    /\ call.cache_key # prev.cache_key
    /\ \/ call.prompt_type = prev.prompt_type /\ Keys(call.context) = Keys(prev.context)
       \/ call.prompt_type # prev.prompt_type /\ call.context = prev.context

(***************************************************************************)
(* Properties of the interaction log (Spec).                               *)
(***************************************************************************)
\* The call returned without a cache hit.
ReturnedUncached == Returned /\ call.ending \in {"generated", "fallback"}

\* Row rec of ai_logs is the record of the terminal transition of the call:
\* it carries the returned text, marked success for a generated text and
\* failure for the fallback.
FinalRecord(rec) ==
    /\ rec.response = call.result
    /\ rec.success = (call.ending = "generated")
    /\ rec.error = IF call.ending = "generated" THEN None
                   ELSE Some("Using fallback response")

\* C13 as stated: a call that ends by generation or by fallback has appended
\* exactly one log record over the whole call, and a call that ends by a
\* cache hit has appended none.
C13_ExactlyOneLogRecordPerCall ==
    /\ ReturnedUncached => Len(ai_logs) = 1
    /\ (Returned /\ call.ending = "cache") => Len(ai_logs) = 0

\* C13, amended: a call that ends by generation or by fallback has appended
\* exactly one record of its terminal transition, as the last row; the rows
\* before it are records of failed attempts (no response, not success), and
\* there is none when no attempt raised.  A call that ends by a cache hit
\* has appended no record.
C13_OneFinalLogRecordPerCall ==
    /\ ReturnedUncached =>
          /\ Len(ai_logs) >= 1
          /\ FinalRecord(ai_logs[Len(ai_logs)])
          /\ \A i \in 1..(Len(ai_logs) - 1) :
                /\ ~FinalRecord(ai_logs[i])
                /\ ai_logs[i].response = None
                /\ ai_logs[i].success = FALSE
          /\ (\A i \in 1..Len(call.hist) : call.hist[i].kind # "exc") =>
                Len(ai_logs) = 1
    /\ (Returned /\ call.ending = "cache") => Len(ai_logs) = 0

\* A call that generated its text on the third attempt after two raising
\* attempts has appended three records.
C13_Witness ==
    /\ ReturnedUncached
    /\ call.ending = "generated"
    /\ Len(call.hist) = 3
    /\ call.hist[1].kind = "exc" /\ call.hist[2].kind = "exc"
    /\ Len(ai_logs) = 3
    /\ FinalRecord(ai_logs[3])

\* C14: when attempt 1 of a call raised a rate-limit error and attempt 2
\* gave a valid text, the call has returned the text of attempt 2 after two
\* upstream requests, it has appended at most two log records, and the last
\* of them is marked success.
C14_RateLimitRecovery ==
    (/\ Len(call.hist) >= 2
     /\ call.hist[1].kind = "exc" /\ RateLimited[call.hist[1].body]
     /\ AttemptValid(2)) =>
        /\ Returned
        /\ call.ending = "generated"
        /\ call.result = Some(Cleaned[call.hist[2].body])
        /\ call.upstream = 2
        /\ Len(call.hist) = 2
        /\ Len(ai_logs) \in 1..2
        /\ ai_logs[Len(ai_logs)].success = TRUE
        /\ ai_logs[Len(ai_logs)].response = call.result

C14_Witness ==
    /\ Returned
    /\ call.hist = <<[kind |-> "exc", body |-> ExcRateLimit],
                     [kind |-> "text", body |-> TextFenced]>>
    /\ call.result = Some("{\"tip\": \"Keep going!\"}")
    /\ call.sleeps = <<retry_delay>>
    /\ Len(ai_logs) = 2

(***************************************************************************)
(* Properties of the retry loop (SpecRetry).                               *)
(***************************************************************************)
\* The upstream failures that are not retryable: the request itself is at
\* fault.
NonRetryable(msg) == msg = ExcInvalidPrompt

\* C15: after an attempt that raised a non-retryable failure the call makes
\* no further upstream request: that attempt is the last of the call.  Only
\* a rate-limited or transient failure is followed by another attempt.
C15_NonRetryableFailureEndsLoop ==
    \A k \in 1..Len(call.hist) :
        (call.hist[k].kind = "exc" /\ NonRetryable(call.hist[k].body)) =>
            /\ Len(call.hist) = k
            /\ call.upstream = k

(***************************************************************************)
(* Properties of the backoff (SpecBackoff).                                *)
(***************************************************************************)
\* A request of another handler of the event loop takes a step.
OtherRequestStep ==
    \/ \E k \in StoreKeys, ok1 \in DbOutcomes, ok2 \in DbOutcomes : CacheGet(k, ok1, ok2)
    \/ \E k \in StoreKeys, v \in StoreValues, ttl \in TtlArgs, ok \in DbOutcomes :
          CacheSet(k, v, ttl, ok)

\* C16: while a call waits in its backoff, the requests of the other
\* handlers served by the same event loop can take steps.
C16_BackoffDoesNotBlockOthers ==
    call.pc = "backoff" => ENABLED OtherRequestStep

(***************************************************************************)
(* Properties of the fallback (Spec).                                      *)
(***************************************************************************)
\* For each prompt type, the cleaned upstream texts that _validate_response
\* accepts.
PassesValidation ==
    [p \in PromptType |->
        {r \in {Cleaned[t] : t \in UpstreamTexts} : _validate_response(r, p)}]

\* C17: a call ends with the fallback only after max_retries failed
\* attempts and without a store; the step that produces the fallback leaves
\* ai_cache as it was; and every row of ai_cache holds a text that
\* _validate_response accepts for the prompt type of the row, never the
\* fallback text of that type.
C17_FallbackNeverCached ==
    /\ [](/\ call.ending = "fallback" =>
                /\ Len(call.hist) = max_retries
                /\ \A i \in 1..max_retries : AttemptFailed(i)
                /\ call.stores = 0
          /\ \A i \in 1..Len(ai_cache) :
                /\ ai_cache[i].response \in PassesValidation[ai_cache[i].prompt_type]
                /\ ai_cache[i].response # fallbacks[ai_cache[i].prompt_type])
    /\ [][(call'.ending = "fallback" /\ call.ending # "fallback") =>
             ai_cache' = ai_cache]_vars

\* A call ended with the fallback while ai_cache held a row of an earlier
\* call.
C17_Witness ==
    /\ Returned
    /\ call.ending = "fallback"
    /\ Len(ai_cache) = 1
    /\ call.hist[max_retries] = [kind |-> "text", body |-> TextShort]

(***************************************************************************)
(* Properties of the helpers (SpecHelpers).                                *)
(***************************************************************************)
\* The text holds the phrase as a substring when the case of the letters is
\* ignored.
HoldsIgnoringCase(text, phrase) ==
    \E i \in 1..(Len(text) - Len(phrase) + 1) :
        \A k \in 1..Len(phrase) :
            LowerChar(CharAt(text, i + k - 1)) = LowerChar(CharAt(phrase, k))

\* C18: _validate_response returns False for every text that holds one of
\* the six denylisted phrases as a substring, whatever the case of its
\* letters, whatever the prompt type and whatever the length of the text.
C18_DenylistedTextRejected ==
    (/\ probe.op = "_validate_response"
     /\ \E phrase \in {"I cannot", "I am unable", "Error:", "Exception:",
                       "as an AI", "I apologize, but"} :
            HoldsIgnoringCase(probe.response, phrase)) =>
        probe.result = FALSE

\* A text that is long enough and names an emotion was rejected for
\* emotion_analysis because it holds "I cannot" in another case.
C18_Witness ==
    /\ probe.op = "_validate_response"
    /\ probe.response = "I feel calm. i CANNOT do that."
    /\ probe.prompt_type = "emotion_analysis"
    /\ probe.result = FALSE

\* The validator accepts texts that hold no denylisted phrase.
C18_WitnessAccepted ==
    /\ probe.op = "_validate_response"
    /\ probe.response = "I can not say how you feel."
    /\ probe.result = TRUE

\* C19: _get_fallback_response has an entry for every member of PromptType
\* and returns it: a non-empty string that is the string of that type alone,
\* not the generic default, the same whatever the context; and the
\* application changes neither a cache nor the log.
C19_FallbackTotalAndPure ==
    /\ [](probe.op = "_get_fallback_response" =>
            /\ PromptType \subseteq DOMAIN fallbacks
            /\ probe.result = fallbacks[probe.prompt_type]
            /\ Len(probe.result) > 0
            /\ probe.result # DefaultFallback
            /\ \A q \in PromptType \ {probe.prompt_type} :
                  probe.result # fallbacks[q])
    /\ [][probe'.op = "_get_fallback_response" =>
             UNCHANGED <<ai_cache, ai_logs, response_cache>>]_vars

C19_Witness ==
    /\ probe.op = "_get_fallback_response"
    /\ probe.prompt_type = "session_summary"
    /\ probe.context # << >>
    /\ probe.result = "This session covered important topics. Reflect on what resonated with you and consider journaling about it."

(***************************************************************************)
(* Properties of the /api/users endpoints (SpecUsers).                     *)
(***************************************************************************)
\* C20: a request to one of the /api/users endpoints (profile, theme,
\* notification settings, data export, account deletion) that carries no
\* Authorization credentials is answered with status 403, and its handler
\* makes no datastore request.
C20_UsersEndpointsRequireAuth ==
    (probe.op = "users" /\ ~probe.credentials) =>
        /\ probe.status = 403
        /\ probe.requests = 0
\* A dict whose keys are all str, as the objects of JSON are.
StrKeyed(data) == \A i \in 1..Len(data) : data[i][1].type = "str"

\* decrypt was given what encrypt returned, under the key of the encryption.
DecryptedOwnToken(op) ==
    probe.op = op /\ probe.given.how = "token" /\ probe.given.key = probe.key

\* The string half of the round trip: decrypt(encrypt(p)) is p, and the
\* ciphertext is not p.
StringRoundTrip ==
    DecryptedOwnToken("decrypt") =>
        /\ probe.result.kind = "return"
        /\ probe.result.value = probe.given.plain
        /\ probe.given.ciphertext # probe.given.plain

C21_WitnessString ==
    /\ DecryptedOwnToken("decrypt")
    /\ probe.given.plain = "café 8"
    /\ probe.result = Return("café 8")

\* The call raised the exception exc with a message that begins with msg.
Raised(exc, msg) ==
    /\ probe.result.kind = "raise"
    /\ probe.result.exc = exc
    /\ StartsWith(probe.result.msg, msg)

\* C22: decrypt of a ciphertext made under another key, or of a string that
\* is not a valid ciphertext, raises Exception "Decryption failed"; encrypt
\* and decrypt of the empty string raise ValueError; none returns a value.
C22_NoPlaintextOnBadInput ==
    /\ (probe.op = "decrypt" /\ probe.given.ciphertext # ""
        /\ (probe.given.how # "token" \/ probe.given.key # probe.key))
           => Raised("Exception", "Decryption failed")
    /\ (probe.op = "decrypt" /\ probe.given.ciphertext = "")
           => Raised("ValueError", "Cannot decrypt empty string")
    /\ (probe.op = "encrypt" /\ probe.plain = "")
           => Raised("ValueError", "Cannot encrypt empty string")

\* decrypt was given a token of the other key, and raised.
C22_Witness ==
    /\ probe.op = "decrypt"
    /\ probe.given.how = "token"
    /\ probe.given.key # probe.key
    /\ Raised("Exception", "Decryption failed")

\* decrypt was given the empty string, and raised ValueError.
C22_WitnessEmpty ==
    /\ probe.op = "decrypt"
    /\ probe.given.ciphertext = ""
    /\ Raised("ValueError", "Cannot decrypt empty string")

\* C23: every attempt of a call after the first starts only after a backoff
\* delay, whether the attempt before it ended in an upstream failure or in a
\* validation rejection, and the delays of a call increase strictly.
C23_EveryRetryAfterBackoff ==
    /\ call.pc = "generate" => Len(call.sleeps) = call.attempt
    /\ call.pc = "done" /\ call.upstream > 0 => Len(call.sleeps) = call.upstream - 1
    /\ \A i \in 1..Len(call.sleeps), j \in 1..Len(call.sleeps) :
           i < j => call.sleeps[i] < call.sleeps[j]

\* C24: _validate_response returns False, for every prompt type, for every
\* text that has fewer than 10 characters once the whitespace around it is
\* trimmed, the empty and the blank text among them.
C24_ShortTrimmedTextRejected ==
    (probe.op = "_validate_response"
     /\ Len(Strip(probe.response)) < MinResponseLen)
        => probe.result = FALSE

\* The text is not blank, has the minimum length and holds no error pattern.
PassesGenericChecks(text) ==
    /\ Len(Strip(text)) > 0
    /\ Len(text) >= MinResponseLen
    /\ \A pattern \in error_patterns : ~HoldsIgnoringCase(text, pattern)

\* The text names an emotion keyword, in any case.
NamesEmotion(text) == \E keyword \in emotion_keywords : HoldsIgnoringCase(text, keyword)

\* C25: a text that passes the length and denylist checks is rejected for
\* EMOTION_ANALYSIS when it names no emotion keyword (in any case), accepted
\* for EMOTION_ANALYSIS when it names one, and accepted for every other
\* prompt type either way.
C25_KeywordCheckForEmotionAnalysisOnly ==
    (probe.op = "_validate_response" /\ PassesGenericChecks(probe.response))
        => probe.result = (probe.prompt_type = "emotion_analysis"
                              => NamesEmotion(probe.response))

\* A text that names no emotion was rejected for EMOTION_ANALYSIS.
C25_Witness ==
    /\ probe.op = "_validate_response"
    /\ probe.prompt_type = "emotion_analysis"
    /\ PassesGenericChecks(probe.response)
    /\ ~NamesEmotion(probe.response)
    /\ probe.result = FALSE

\* The same text was accepted for another prompt type.
C25_WitnessOtherType ==
    /\ probe.op = "_validate_response"
    /\ probe.prompt_type = "mood_summary"
    /\ PassesGenericChecks(probe.response)
    /\ ~NamesEmotion(probe.response)
    /\ probe.result = TRUE

\* What lies inside the fence of a text that starts with one: the lines
\* after the opening fence line, up to the closing fence line when the last
\* line is one; a leading "json" is taken for the tag and dropped with the
\* whitespace around what follows.
EnclosedContent(text) ==
    LET nl     == NewlinePositions(text)
        body   == IF nl = {} THEN "" ELSE DropFirst(text, Min(nl))
        closed == body = Fence
                  \/ (Len(body) > Len(Fence)
                      /\ DropFirst(body, Len(body) - Len(Fence) - 1) = "\n" \o Fence)
        inner  == IF ~closed THEN body
                  ELSE IF body = Fence THEN ""
                  ELSE SubSeq(body, 1, Len(body) - Len(Fence) - 1)
    IN  IF StartsWith(inner, "json") THEN Strip(DropFirst(inner, 4)) ELSE inner

\* The text the clean-up is to give for a raw upstream text.
WithoutFence(raw) ==
    IF StartsWith(Strip(raw), Fence) THEN EnclosedContent(Strip(raw)) ELSE Strip(raw)

\* C26: the text a call generates, stores and returns is the upstream text
\* of its last attempt after the clean-up: trimmed when it starts with no
\* fence; and when it starts with a fence, the content inside the fence,
\* unchanged, without the opening fence line, the tag and the closing fence
\* line.
C26_FenceCleanupPreservesContent ==
    (call.pc = "done" /\ call.ending = "generated") =>
        LET raw == call.hist[Len(call.hist)].body IN
        /\ call.result = Some(WithoutFence(raw))
        /\ _validate_response(WithoutFence(raw), call.prompt_type)
        /\ ai_cache[Len(ai_cache)].response = WithoutFence(raw)

\* The outcome of a call that made upstream requests is the outcome its
\* last attempt gives: the cleaned text when the validator accepted it, the
\* fallback after max_retries failed attempts.
OutcomeFollowsAttempts ==
    (call.pc = "done" /\ call.ending # "cache") =>
        LET n == Len(call.hist) IN
        /\ Returned
        /\ n > 0
        /\ \A i \in 1..(n - 1) : AttemptFailed(i)
        /\ call.ending = "generated" =>
               /\ AttemptValid(n)
               /\ call.result = Some(Cleaned[call.hist[n].body])
        /\ call.ending = "fallback" =>
               /\ AttemptFailed(n)
               /\ n = max_retries
               /\ call.result = Some(_get_fallback_response(call.prompt_type,
                                                            call.context))

\* A lookup that raises is a miss: the call goes on to generate.
FailedLookupIsMiss ==
    \A inp \in CallInputs :
        Begin(inp.prompt_type, inp.context, TRUE, FALSE) => call'.pc = "generate"

\* C27: whether the cache lookup, the cache store or a log insert raises
\* makes no difference to what generate_response returns: a lookup that
\* raises is a miss and the call generates; a call whose attempt gave a
\* valid text returns it, and a call whose attempts all failed returns the
\* fallback, whether or not the store and the log inserts succeeded.
C27_DatastoreFailuresKeepOutcome ==
    [](OutcomeFollowsAttempts) /\ [][FailedLookupIsMiss]_vars

\* A call returned the text it generated although neither the store nor
\* the log insert succeeded.
C27_Witness ==
    /\ call.pc = "done"
    /\ call.ending = "generated"
    /\ call.stores = 1
    /\ ai_cache = <<>>
    /\ ai_logs = <<>>

\* A call returned the fallback although no log insert succeeded.
C27_WitnessFallback ==
    /\ call.pc = "done"
    /\ call.ending = "fallback"
    /\ \E i \in 1..Len(call.hist) : call.hist[i].kind = "exc"
    /\ ai_logs = <<>>

\* A call generated although the table held an unexpired entry of its key:
\* its lookup raised.
C27_WitnessLookup ==
    /\ calls = 2
    /\ call.pc = "done"
    /\ call.ending = "generated"
    /\ Len(ai_cache) = 2
    /\ UnexpiredEntry(1, call.cache_key, call.began)

\* The step begins a call, and the step ends one with a generated text.
BeginsCall == calls' = calls + 1
EndsGenerated == call.pc = "generate" /\ call'.pc = "done" /\ call'.ending = "generated"

\* C28: a call with use_cache = False makes no lookup and goes to the
\* upstream whatever the table holds, and the valid text it generates is
\* still inserted in the table; while enable_caching is off, no call ends by
\* a cache hit and no step changes the table.
C28_UseCacheGatesReadsOnly ==
    [][/\ (BeginsCall /\ (~call'.use_cache \/ ~enable_caching))
              => (call'.pc = "generate" /\ call'.upstream = 0)
       /\ (BeginsCall /\ ~call'.use_cache) => ~call'.looked
       /\ (EndsGenerated /\ enable_caching)
              => ai_cache' = Append(ai_cache,
                                    [cache_key |-> call.cache_key,
                                     prompt_type |-> call.prompt_type,
                                     response |-> TheValue(call'.result),
                                     created_at |-> now])
       /\ ~enable_caching => ai_cache' = ai_cache]_vars

\* A call with use_cache = False generated and stored a second row although
\* the table held an unexpired entry of its key.
C28_Witness ==
    /\ calls = 2
    /\ ~call.use_cache
    /\ call.pc = "done"
    /\ call.ending = "generated"
    /\ Len(ai_cache) = 2
    /\ UnexpiredEntry(1, call.cache_key, call.began)
    /\ ai_cache[2].response = TheValue(call.result)

\* With enable_caching off, a call with use_cache = True generated although
\* the table held an unexpired entry of its key, and stored nothing.
C28_WitnessFlagOff ==
    /\ ~enable_caching
    /\ calls = 2
    /\ call.use_cache
    /\ call.pc = "done"
    /\ call.ending = "generated"
    /\ Len(ai_cache) = 1
    /\ UnexpiredEntry(1, call.cache_key, call.began)
    /\ ai_cache[1].created_at < call.began

\* The messages of the attempts of the call that raised, in order.
RaisedMessages ==
    LET IsRaise(out) == out.kind = "exc"
        raised == SelectSeq(call.hist, IsRaise)
    IN  [i \in 1..Len(raised) |-> raised[i].body]

\* C29: a call that did not end by a cache hit has appended one record per
\* attempt that raised, each a failure with no response and the message of
\* the exception, in the order of the attempts, then one final record, and
\* nothing else: a rejected text leaves no record.
C29_LogRecordsAreRaisesPlusOne ==
    ReturnedUncached =>
        /\ Len(ai_logs) = Len(RaisedMessages) + 1
        /\ \A i \in 1..Len(RaisedMessages) :
              /\ ai_logs[i].success = FALSE
              /\ ai_logs[i].response = None
              /\ ai_logs[i].error = Some(RaisedMessages[i])
        /\ FinalRecord(ai_logs[Len(ai_logs)])

\* A call whose attempts were a rejected text, an exception and a valid text
\* has returned with two records.
C29_Witness ==
    /\ ReturnedUncached
    /\ call.ending = "generated"
    /\ Len(call.hist) = 3
    /\ call.hist[1].kind = "text"
    /\ call.hist[2].kind = "exc"
    /\ Len(ai_logs) = 2

\* A call whose three attempts were rejected texts has returned the
\* fallback with one record.
C29_WitnessRejections ==
    /\ ReturnedUncached
    /\ call.ending = "fallback"
    /\ \A i \in 1..Len(call.hist) : call.hist[i].kind = "text"
    /\ Len(ai_logs) = 1

\* The row the wrapper found under its key is a hit: the read succeeded,
\* the row had not expired and its value is not null.
FoundValue ==
    /\ probe.get_ok
    /\ IsSome(probe.row)
    /\ probe.at <= TheValue(probe.row).expires_at
    /\ TheValue(probe.row).value # "null"

C30_WitnessHit ==
    /\ probe.op = "cached"
    /\ FoundValue
    /\ probe.func_calls = 0
    /\ probe.returned = PyStr("null")

\* The read and the write both failed and the wrapper returned the result.
C30_WitnessFailures ==
    /\ probe.op = "cached"
    /\ ~probe.get_ok
    /\ ~probe.set_ok
    /\ IsSome(probe.row)
    /\ TheValue(probe.row).value # "null"
    /\ probe.func_calls = 1
    /\ probe.returned = probe.func_result

=============================================================================
